---- MODULE Spec2Model ----
(***************************************************************************)
(* Verification model of the Host PMS connector: the pipeline executor     *)
(* (services/pipeline), the price-based reservation transformer            *)
(* (transformers/reservation_transformer.py) and the StatDaily reservation *)
(* transformer (transformers/stat_daily_to_reservation_transformer.py).    *)
(*                                                                         *)
(* Three specifications share the module: PipelineSpec, BatchSpec and      *)
(* StatDailySpec.  Each one drives its own variables and leaves the        *)
(* variables of the other machines at their idle values.                   *)
(***************************************************************************)
EXTENDS Integers, Sequences, FiniteSets, TLC

VARIABLES
    \* ---- Pipeline.execute -------------------------------------------
    steps,              \* Pipeline.steps: the declared step list
    context,            \* the PipelineContext handed to execute
    step_index,         \* position of the for loop over self.steps (1-based)
    successful_steps,   \* local counter of Pipeline.execute
    failed_steps,       \* local counter of Pipeline.execute
    pipeline_pc,        \* "loop", "finalize" (after break / exhaustion), "returned"
    executed,           \* history: one entry per step.run call, in call order
    \* ---- ReservationTransformer.transform_batch ----------------------
    batch,                    \* the source batch B handed to the engine
    feed,                     \* how many times B is fed in the current call (1 or 2)
    first_output,             \* the records returned by the call on B alone
    host_reservations,        \* argument of the current transform_batch call
    reservation_status_map,   \* argument: ConfigId -> status code string
    hotel_local_time,         \* argument: hotel local time or None
    reservation_groups,       \* dict of step 1, in insertion order
    group_index,              \* position of the loop over the groups (1-based)
    master_price_dates,       \* price dates of the current group's master
    child_reservations,       \* children of the current multi-line group
    child_index,              \* position of the loop over the children
    climber_reservations,     \* the output list
    seen_reservation_nights,  \* dict (reservation_id_external, calendar_date) -> index
    failed_count,             \* local counter of transform_batch
    overlap_records_list,     \* zero-revenue overlap records created
    batch_pc,                 \* "idle", "start", "groups", "children", "done"
    \* ---- StatDailyToReservationTransformer.transform_batch -----------
    stat_daily_records,       \* argument: the raw StatDaily records
    config_response,          \* argument: hotel configuration or None
    stat_local_time,          \* argument: hotel local time or None
    room_charge_codes,        \* result of _extract_room_charge_codes
    parsed_records,           \* result of _parse_stat_daily_records
    stat_groups,              \* dict `groups` of step 3, in insertion order
    stat_group_index,         \* position of the loop over the groups (1-based)
    stat_reservations,        \* the output list `reservations`
    stat_failed_count,        \* local counter failed_count
    stat_pc,                  \* "idle", "start", "group", "transform", "done"
    \* ---- status translation of one source status --------------------
    status_args,              \* None, or the source status and its context
    status_result,            \* None, or the target status of each pipeline
    \* ---- StatDailyTransformer.process_stat_daily_for_reservations ----
    invoice_records,          \* argument stat_daily_records
    reservation_collection,   \* argument: the collection, updated in place
    consolidated_records,     \* result of consolidate_stat_daily_records
    regular_revenue_map,      \* dict (date, external id, ResId) -> revenue
    noshow_revenue_map,       \* dict (date, ResId) -> revenue
    invoice_index,            \* position of the loop over the reservations
    updated_count,            \* local counter of update_reservation_invoices
    match_details,            \* local list of update_reservation_invoices
    invoice_pc,               \* "idle", "start", "aggregate", "update", "done"
    \* ---- HostPMSConnectorOrchestrator.process_hotel -------------------
    results,                  \* the result dictionary of process_hotel
    orch_locals,              \* config_response, segments_collection,
                              \* reservations_collection as bound so far
    orch_calls,               \* history: the collaborator calls made, in order
    orch_pc,                  \* the stage to run next, "returned" or "raised"
    \* ---- ClimberPadraoOrchestrator.run --------------------------------
    padrao_locals,            \* end_date, current_date, all_stat_daily,
                              \* reservations, segments_uploaded
    padrao_calls,             \* history: the collaborator calls made, in order
    padrao_failed,            \* history: the calls that raised
    padrao_summary,           \* <<>> or <<the dictionary run returned>>
    padrao_pc,                \* the stage to run next, "returned" or "raised"
    \* ---- ProcessStatDailyStep.execute, the transform call --------------
    step_context              \* context.config_response as the step finds it

pipeline_vars == <<steps, context, step_index, successful_steps, failed_steps,
                   pipeline_pc, executed>>

batch_vars == <<batch, feed, first_output, host_reservations, reservation_status_map,
                hotel_local_time, reservation_groups, group_index, master_price_dates,
                child_reservations, child_index, climber_reservations,
                seen_reservation_nights, failed_count, overlap_records_list, batch_pc>>

stat_vars == <<stat_daily_records, config_response, stat_local_time, room_charge_codes,
               parsed_records, stat_groups, stat_group_index, stat_reservations,
               stat_failed_count,
               stat_pc>>

status_vars == <<status_args, status_result>>

invoice_vars == <<invoice_records, reservation_collection, consolidated_records,
                  regular_revenue_map, noshow_revenue_map, invoice_index,
                  updated_count, match_details, invoice_pc>>

orch_vars == <<results, orch_locals, orch_calls, orch_pc>>

padrao_vars == <<padrao_locals, padrao_calls, padrao_failed, padrao_summary, padrao_pc>>

step_vars == <<step_context>>

vars == <<pipeline_vars, batch_vars, stat_vars, status_vars, invoice_vars, orch_vars, padrao_vars, step_vars>>

None == "None"

(***************************************************************************)
(* Bounds                                                                  *)
(***************************************************************************)
MaxSteps == 3
MaxLines == 2
MaxStatRecords == 2
MaxGroupLines == 3
MaxInvoiceRecords == 2
MaxPadraoDates == 2
MaxFetched == 1

(***************************************************************************)
(* Pipeline steps                                                          *)
(***************************************************************************)

\* Names given to test/user-defined PipelineStep subclasses.
CustomNames == {"A", "B"}

\* PipelineStep.is_required default and the overrides of the shipped steps.
FetchParametersStep ==
    [kind |-> "FetchParameters", name |-> "FetchParameters", required |-> TRUE]
ProcessConfigStep ==
    [kind |-> "ProcessConfig", name |-> "ProcessConfig", required |-> FALSE]
ProcessInventoryStep ==
    [kind |-> "ProcessInventory", name |-> "ProcessInventory", required |-> FALSE]
ProcessSegmentsStep ==
    [kind |-> "ProcessSegments", name |-> "ProcessSegments", required |-> FALSE]

ProcessStatDailyStep ==
    [kind |-> "ProcessStatDaily", name |-> "ProcessStatDaily", required |-> FALSE]

\* The steps that publish a file.
PublishingSteps ==
    {ProcessConfigStep, ProcessInventoryStep, ProcessSegmentsStep, ProcessStatDailyStep}

ShippedSteps ==
    {FetchParametersStep, ProcessConfigStep, ProcessInventoryStep, ProcessSegmentsStep}

\* A subclass of PipelineStep with its own execute; required is what its
\* is_required() returns (True unless overridden).
CustomSteps == [kind : {"Custom"}, name : CustomNames, required : BOOLEAN]

StepSet == ShippedSteps \cup CustomSteps

is_required(step) == step.required

get_name(step) == step.name

\* What the collaborators (or a custom execute body) do during one run of a
\* step: the point at which the first exception is raised, if any.
Outcomes(step) ==
    CASE step.kind = "FetchParameters" -> {"ok", "fetch_fail"}
      [] step.kind = "ProcessConfig" ->
            {"ok", "fetch_fail", "raw_upload_fail", "transform_fail",
             "upload_fail", "register_fail"}
      [] step.kind = "ProcessInventory" ->
            {"ok", "transform_fail", "upload_fail", "register_fail"}
      [] step.kind = "ProcessSegments" -> {"ok", "upload_fail", "register_fail"}
      [] step.kind = "ProcessStatDaily" ->
            {"ok", "no_records", "raw_upload_fail", "transform_fail", "upload_fail",
             "register_fail"}
      [] OTHER -> {"returns_true", "returns_false", "raises", "run_raises"}

(***************************************************************************)
(* PipelineContext                                                         *)
(***************************************************************************)
NewContext ==
    [last_import_date |-> None,
     config_response |-> None,
     config_data |-> None,
     segments_collection |-> None,
     room_inventory |-> None,
     stat_daily_records |-> None,
     reservations_collection |-> None,
     s3_uploads |-> <<>>,
     sqs_messages |-> <<>>,
     stats |-> [pipeline |-> None, config |-> None, inventory |-> None,
                segments |-> None, stat_daily |-> None],
     errors |-> <<>>,
     success |-> FALSE]

add_error(ctx, step_name, error_message) ==
    [ctx EXCEPT !.errors = Append(@, [step |-> step_name, message |-> error_message])]

\* self.s3_uploads[data_type] = upload_result (a dict: the key is added or
\* overwritten)
add_s3_upload(ctx, data_type, upload_result) ==
    [ctx EXCEPT !.s3_uploads =
        [d \in (DOMAIN @) \cup {data_type} |->
            IF d = data_type THEN upload_result ELSE @[d]]]

add_sqs_message(ctx, file_type, file_key) ==
    [ctx EXCEPT !.sqs_messages = Append(@, [file_type |-> file_type, file_key |-> file_key])]

has_errors(ctx) == Len(ctx.errors) > 0

\* The result S3Manager.upload_raw / upload_processed returns for a data type.
UploadResult(data_type) == [key |-> <<"key", data_type>>, url |-> <<"url", data_type>>]

\* Result of an execute body: the context it leaves, and either the boolean
\* it returns or the fact that the exception escaped it.
Returned(ctx, value) == [ctx |-> ctx, raised |-> FALSE, value |-> value]
Raised(ctx) == [ctx |-> ctx, raised |-> TRUE, value |-> FALSE]


(***************************************************************************)
(* execute() of the shipped steps and of custom steps                      *)
(***************************************************************************)

\* FetchParametersStep.execute
ExecuteFetchParameters(step, ctx, o) ==
    IF o = "ok"
    THEN Returned([ctx EXCEPT !.last_import_date = "lastImportDate"], TRUE)
    ELSE Returned(add_error(ctx, step.name, "Failed to fetch parameters: exc"), FALSE)

\* ProcessConfigStep.execute: every statement up to the failing call has
\* taken effect when the except clause records the error.
ExecuteProcessConfig(step, ctx, o) ==
    LET failed(c) == Returned(add_error(c, step.name, "Failed to process config: exc"), FALSE)
        c1 == [ctx EXCEPT !.config_response = "config_response"]
        c2 == add_s3_upload(c1, "config_raw", UploadResult("config_raw"))
        c3 == [c2 EXCEPT !.config_data = "config_data",
                         !.segments_collection = "segments_collection"]
        c4 == add_s3_upload(c3, "config_processed", UploadResult("config_processed"))
        c5 == add_sqs_message(c4, "config", UploadResult("config_processed").key)
        c6 == [c5 EXCEPT !.stats.config = "room_count"]
    IN  CASE o = "fetch_fail" -> failed(ctx)
          [] o = "raw_upload_fail" -> failed(c1)
          [] o = "transform_fail" -> failed(c2)
          [] o = "upload_fail" -> failed(c3)
          [] o = "register_fail" -> failed(c4)
          [] OTHER -> Returned(c6, TRUE)

\* ProcessInventoryStep.execute
ExecuteProcessInventory(step, ctx, o) ==
    LET failed(c) == Returned(add_error(c, step.name, "Failed to process inventory: exc"), FALSE)
        c1 == [ctx EXCEPT !.room_inventory = "room_inventory"]
        c2 == add_s3_upload(c1, "inventory_processed", UploadResult("inventory_processed"))
        c3 == add_sqs_message(c2, "inventory", UploadResult("inventory_processed").key)
        c4 == [c3 EXCEPT !.stats.inventory = "room_count"]
    IN  IF ctx.config_response = None
        THEN Returned(ctx, FALSE)
        ELSE CASE o = "transform_fail" -> failed(ctx)
               [] o = "upload_fail" -> failed(c1)
               [] o = "register_fail" -> failed(c2)
               [] OTHER -> Returned(c4, TRUE)

\* Mutant: the notification is queued before the file is registered.
ExecuteProcessSegmentsNotifiesFirst(step, ctx, o) ==
    LET failed(c) == Returned(add_error(c, step.name, "Failed to process segments: exc"), FALSE)
        c1 == add_s3_upload(ctx, "segments_processed", UploadResult("segments_processed"))
        c2 == add_sqs_message(c1, "segments", UploadResult("segments_processed").key)
        c3 == [c2 EXCEPT !.stats.segments = "total_segments"]
    IN  IF ctx.segments_collection = None
        THEN Returned(ctx, FALSE)
        ELSE CASE o = "upload_fail" -> failed(ctx)
               [] o = "register_fail" -> failed(c2)
               [] OTHER -> Returned(c3, TRUE)

\* ProcessSegmentsStep.execute
ExecuteProcessSegments(step, ctx, o) ==
    LET failed(c) == Returned(add_error(c, step.name, "Failed to process segments: exc"), FALSE)
        c1 == add_s3_upload(ctx, "segments_processed", UploadResult("segments_processed"))
        c2 == add_sqs_message(c1, "segments", UploadResult("segments_processed").key)
        c3 == [c2 EXCEPT !.stats.segments = "total_segments"]
    IN  IF ctx.segments_collection = None
        THEN Returned(ctx, FALSE)
        ELSE CASE o = "upload_fail" -> failed(ctx)
               [] o = "register_fail" -> failed(c1)
               [] OTHER -> Returned(c3, TRUE)

\* ProcessStatDailyStep.execute: the per-date fetches tolerate their own
\* failures; without fetched records nothing is published and the step
\* succeeds.
ExecuteProcessStatDaily(step, ctx, o) ==
    LET failed(c) == Returned(add_error(c, step.name, "Failed to process StatDaily: exc"), FALSE)
        c1 == [add_s3_upload(ctx, "stat_daily_raw", UploadResult("stat_daily_raw"))
                  EXCEPT !.stat_daily_records = "all_stat_daily_records"]
        c2 == add_s3_upload(c1, "reservations_processed",
                            UploadResult("reservations_processed"))
        c3 == add_sqs_message(c2, "reservations", UploadResult("reservations_processed").key)
        c4 == [c3 EXCEPT !.reservations_collection = "reservation_collection",
                         !.stats.stat_daily = "reservations_created"]
    IN  CASE o = "no_records" -> Returned(ctx, TRUE)
          [] o = "raw_upload_fail" -> failed(ctx)
          [] o = "transform_fail" -> failed(c1)
          [] o = "upload_fail" -> failed(c1)
          [] o = "register_fail" -> failed(c2)
          [] OTHER -> Returned(c4, TRUE)

\* The abstract PipelineStep.execute as a subclass may implement it: it
\* returns True, returns False, or raises.
ExecuteCustom(step, ctx, o) ==
    CASE o = "returns_true" -> Returned(ctx, TRUE)
      [] o = "returns_false" -> Returned(ctx, FALSE)
      [] OTHER -> Raised(ctx)

Execute(step, ctx, o) ==
    CASE step.kind = "FetchParameters" -> ExecuteFetchParameters(step, ctx, o)
      [] step.kind = "ProcessConfig" -> ExecuteProcessConfig(step, ctx, o)
      [] step.kind = "ProcessInventory" -> ExecuteProcessInventory(step, ctx, o)
      [] step.kind = "ProcessSegments" -> ExecuteProcessSegments(step, ctx, o)
      [] step.kind = "ProcessStatDaily" -> ExecuteProcessStatDaily(step, ctx, o)
      [] OTHER -> ExecuteCustom(step, ctx, o)

\* Mutant of run: the except clause records the error and re-raises.
RunReraises(step, ctx, o) ==
    IF o = "run_raises"
    THEN Raised(ctx)
    ELSE LET r == Execute(step, ctx, o)
         IN  IF r.raised THEN Raised(add_error(r.ctx, step.name, "exc")) ELSE r

\* PipelineStep.run: execute under try/except; an exception of execute is
\* recorded against self.name and turned into False.  A subclass that
\* overrides run may let an exception escape ("run_raises").
Run(step, ctx, o) ==
    IF o = "run_raises"
    THEN Raised(ctx)
    ELSE LET r == Execute(step, ctx, o)
         IN  IF r.raised
             THEN Returned(add_error(r.ctx, step.name, "exc"), FALSE)
             ELSE r

(***************************************************************************)
(* Pipeline.execute                                                        *)
(***************************************************************************)

\* Mutant: a failed required step does not stop the loop.
NeverBreaks(step, success) == FALSE

\* Mutant: any failed step stops the loop.
BreaksOnAnyFailure(step, success) == ~success

\* The two break statements of the loop body: the step failed (returned
\* False, or run raised) and is_required() is true.
Breaks(step, success) == ~success /\ is_required(step)

\* Mutant: success means that no step was counted as failed.
MarkSuccessByCount(ctx, failed) == failed = 0

\* context.success = not context.has_errors()
MarkSuccess(ctx, failed) == ~has_errors(ctx)

\* Mutant: the statistics count the declared steps as successful.
PipelineStatsAllSuccessful(total, successful, failed) ==
    [total_steps |-> total, successful_steps |-> total, failed_steps |-> failed]

\* context.stats["pipeline"]
PipelineStats(total, successful, failed) ==
    [total_steps |-> total, successful_steps |-> successful, failed_steps |-> failed]

\* The variables of a machine that a specification does not drive.
PipelineIdle ==
    /\ steps = <<>>
    /\ context = NewContext
    /\ step_index = 1
    /\ successful_steps = 0
    /\ failed_steps = 0
    /\ pipeline_pc = "idle"
    /\ executed = <<>>

BatchIdle ==
    /\ batch = <<>>
    /\ feed = 1
    /\ first_output = <<>>
    /\ host_reservations = <<>>
    /\ reservation_status_map = <<>>
    /\ hotel_local_time = None
    /\ reservation_groups = <<>>
    /\ group_index = 1
    /\ master_price_dates = {}
    /\ child_reservations = <<>>
    /\ child_index = 1
    /\ climber_reservations = <<>>
    /\ seen_reservation_nights = <<>>
    /\ failed_count = 0
    /\ overlap_records_list = <<>>
    /\ batch_pc = "idle"

StatusIdle ==
    /\ status_args = <<>>
    /\ status_result = <<>>

InvoiceIdle ==
    /\ invoice_records = <<>>
    /\ reservation_collection = <<>>
    /\ consolidated_records = <<>>
    /\ regular_revenue_map = <<>>
    /\ noshow_revenue_map = <<>>
    /\ invoice_index = 1
    /\ updated_count = 0
    /\ match_details = <<>>
    /\ invoice_pc = "idle"

StepIdle == step_context = <<>>

PadraoIdle ==
    /\ padrao_locals = <<>>
    /\ padrao_calls = <<>>
    /\ padrao_failed = <<>>
    /\ padrao_summary = <<>>
    /\ padrao_pc = "idle"

OrchIdle ==
    /\ results = <<>>
    /\ orch_locals = <<>>
    /\ orch_calls = <<>>
    /\ orch_pc = "idle"

StatIdle ==
    /\ stat_daily_records = <<>>
    /\ config_response = <<>>
    /\ stat_local_time = <<>>
    /\ room_charge_codes = {}
    /\ parsed_records = <<>>
    /\ stat_groups = <<>>
    /\ stat_group_index = 1
    /\ stat_reservations = <<>>
    /\ stat_failed_count = 0
    /\ stat_pc = "idle"

PipelineInit ==
    /\ steps \in UNION {[1..n -> StepSet] : n \in 1..MaxSteps}
    /\ context = NewContext
    /\ step_index = 1
    /\ successful_steps = 0
    /\ failed_steps = 0
    /\ pipeline_pc = "loop"
    /\ executed = <<>>
    /\ BatchIdle
    /\ StatIdle
    /\ StatusIdle
    /\ InvoiceIdle
    /\ OrchIdle
    /\ PadraoIdle
    /\ StepIdle

\* One iteration of `for step in self.steps`: step.run under try/except,
\* the counters, and the break of a failed required step.
ExecuteStep ==
    /\ pipeline_pc = "loop"
    /\ step_index <= Len(steps)
    /\ \E o \in Outcomes(steps[step_index]) :
         LET step == steps[step_index]
             r == Run(step, context, o)
             success == ~r.raised /\ r.value
             ctx == IF r.raised
                    THEN add_error(r.ctx, get_name(step), "Unexpected exception: exc")
                    ELSE r.ctx
         IN  /\ context' = ctx
             /\ successful_steps' = IF success THEN successful_steps + 1 ELSE successful_steps
             /\ failed_steps' = IF success THEN failed_steps ELSE failed_steps + 1
             /\ executed' = Append(executed,
                                   [index |-> step_index, outcome |-> o, success |-> success])
             /\ IF Breaks(step, success) \/ step_index = Len(steps)
                THEN pipeline_pc' = "finalize"
                ELSE pipeline_pc' = "loop"
             /\ step_index' = step_index + 1
    /\ UNCHANGED <<steps, batch_vars, stat_vars, status_vars, invoice_vars, orch_vars, padrao_vars, step_vars>>

\* After the loop: mark success, attach the statistics, return the context.
Finalize ==
    /\ pipeline_pc = "finalize"
    /\ context' = [context EXCEPT
                     !.success = MarkSuccess(context, failed_steps),
                     !.stats.pipeline =
                         PipelineStats(Len(steps), successful_steps, failed_steps)]
    /\ pipeline_pc' = "returned"
    /\ UNCHANGED <<steps, step_index, successful_steps, failed_steps, executed, batch_vars,
                   stat_vars, status_vars, invoice_vars, orch_vars, padrao_vars, step_vars>>

PipelineNext == ExecuteStep \/ Finalize

\* Pipelines made of the publishing steps.
PublishInit ==
    /\ steps \in UNION {[1..n -> PublishingSteps] : n \in 1..MaxSteps}
    /\ context = NewContext
    /\ step_index = 1
    /\ successful_steps = 0
    /\ failed_steps = 0
    /\ pipeline_pc = "loop"
    /\ executed = <<>>
    /\ BatchIdle
    /\ StatIdle
    /\ StatusIdle
    /\ InvoiceIdle
    /\ OrchIdle
    /\ PadraoIdle
    /\ StepIdle

PublishSpec == PublishInit /\ [][PipelineNext]_vars

PipelineSpec == PipelineInit /\ [][PipelineNext]_vars


(***************************************************************************)
(* Properties of Pipeline.execute                                          *)
(***************************************************************************)
Last(seq) == seq[Len(seq)]

\* The executed entry at position j is a failed run of a required / optional step.
FailedRequiredAt(j) == ~executed[j].success /\ is_required(steps[executed[j].index])
FailedOptionalAt(j) == ~executed[j].success /\ ~is_required(steps[executed[j].index])

\* C1: once a required step has failed (returned False or raised), no later
\* step of the list is run: a failed required step is always the last run.
C1_RequiredFailureStops ==
    \A j \in 1..Len(executed) : FailedRequiredAt(j) => j = Len(executed)

C1_Witness ==
    /\ pipeline_pc = "returned"
    /\ Len(executed) < Len(steps)
    /\ FailedRequiredAt(Len(executed))

\* C2: steps run once each in declaration order, a failed optional step is
\* followed by the next step, and the run ends before the end of the list
\* only behind a failed required step.
C2_OptionalFailureContinues ==
    /\ \A j \in 1..Len(executed) : executed[j].index = j
    /\ Len(executed) <= Len(steps)
    /\ pipeline_pc # "loop" =>
         /\ \A j \in 1..Len(executed) :
               (FailedOptionalAt(j) /\ j < Len(steps)) => Len(executed) > j
         /\ Len(executed) < Len(steps) => FailedRequiredAt(Len(executed))

C2_Witness ==
    /\ pipeline_pc = "returned"
    /\ Len(executed) = Len(steps)
    /\ \E j \in 1..Len(executed) : FailedOptionalAt(j) /\ j < Len(steps)

\* C3 (as claimed): when an optional step failed and every later step
\* succeeded, all steps ran and the returned context is marked failed.
C3_OptionalFailureMarksRunFailed ==
    (/\ pipeline_pc = "returned"
     /\ \E j \in 1..Len(executed) :
           /\ FailedOptionalAt(j)
           /\ \A k \in (j+1)..Len(executed) : executed[k].success)
    => (Len(executed) = Len(steps) /\ context.success = FALSE)

\* C4 (as claimed): when the first step is required and fails, the error
\* list holds exactly one entry, and it names that step.
C4_ShortCircuitOneError ==
    (/\ pipeline_pc = "returned"
     /\ is_required(steps[1])
     /\ ~executed[1].success)
    => (Len(context.errors) = 1 /\ context.errors[1].step = get_name(steps[1]))

\* C5: on return success is exactly "no errors recorded", and the pipeline
\* statistics count the declared steps and the steps actually run.
C5_SuccessAndStats ==
    pipeline_pc = "returned" =>
        /\ context.success = (Len(context.errors) = 0)
        /\ context.stats.pipeline.total_steps = Len(steps)
        /\ context.stats.pipeline.successful_steps
             = Cardinality({j \in 1..Len(executed) : executed[j].success})
        /\ context.stats.pipeline.successful_steps + context.stats.pipeline.failed_steps
             = Len(executed)
        /\ Len(executed) <= Len(steps)
        /\ (Len(executed) < Len(steps)) => \E j \in 1..Len(executed) : FailedRequiredAt(j)

C5_Witness ==
    /\ pipeline_pc = "returned"
    /\ Len(executed) < Len(steps)
    /\ context.stats.pipeline.successful_steps > 0
    /\ ~context.success

\* C6: a run in which an exception is raised appends exactly one error
\* entry, naming the step, counts the step as failed, and leaves the
\* pipeline able to return its context.
C6_ExceptionRecordedOnce ==
    [][(/\ Len(executed') = Len(executed) + 1
        /\ Last(executed').outcome \in {"raises", "run_raises"})
       => (/\ context'.errors = Append(context.errors, Last(context'.errors))
           /\ Last(context'.errors).step = get_name(steps[Last(executed').index])
           /\ failed_steps' = failed_steps + 1
           /\ successful_steps' = successful_steps
           /\ pipeline_pc' \in {"loop", "finalize"})]_vars

C6_Witness ==
    /\ pipeline_pc = "returned"
    /\ Len(executed) = Len(steps)
    /\ \E j \in 1..Len(executed) :
          /\ executed[j].outcome = "raises"
          /\ Cardinality({e \in 1..Len(context.errors) :
                            context.errors[e].step = get_name(steps[j])}) = 1


(***************************************************************************)
(* Reservation status (models/reservation_status.py)                       *)
(***************************************************************************)
CANCELLED == 0
CHECKED_IN == 1
CHECKED_OUT == 2
CONFIRMED == 3
NO_SHOW == 4
TENTATIVE == 5

\* ReservationStatusMapper.map_host_status_to_climber
map_host_status_to_climber(host_status_code) ==
    CASE host_status_code = "CI" -> CHECKED_IN
      [] host_status_code = "CO" -> CHECKED_OUT
      [] host_status_code = "NOSHOW" -> NO_SHOW
      [] host_status_code = "OPTION" -> TENTATIVE
      [] host_status_code = "CXL" -> CANCELLED
      [] host_status_code = "OOI" -> CANCELLED
      [] host_status_code = "OOO" -> CANCELLED
      [] host_status_code = "WAITLIST" -> CANCELLED
      [] host_status_code = "STANDARD" -> CONFIRMED
      [] OTHER -> CONFIRMED

\* ReservationTransformer._get_status_code
_get_status_code(res_status_int, status_map) ==
    IF res_status_int \in DOMAIN status_map /\ status_map[res_status_int] # ""
    THEN map_host_status_to_climber(status_map[res_status_int])
    ELSE CONFIRMED

(***************************************************************************)
(* Source reservation lines (models/host/reservation.py)                   *)
(***************************************************************************)

\* A datetime is a calendar date and a time of day; an optional datetime is
\* the empty sequence (None) or a one-element sequence.
DateTime(d, t) == [date |-> d, time |-> t]
NoTime == <<>>

\* ReservationTransformer._get_date_string: the date part, ISO formatted
\* (ISO date strings order and compare as the dates do).
_get_date_string(date_input) == date_input.date

PriceItem(d, t, sales_group, amount) ==
    [date |-> DateTime(d, t), sales_group |-> sales_group, amount |-> amount]

\* The Prices arrays of the modelled lines: none, one night, two nights, a
\* night on the checkout date, and one night with room, F&B and other charges.
PriceLists ==
    { <<>>,
      <<PriceItem(1, 0, 0, 106)>>,
      <<PriceItem(1, 0, 0, 106), PriceItem(2, 0, 0, 212)>>,
      <<PriceItem(2, 0, 0, 106)>>,
      <<PriceItem(1, 0, 0, 106), PriceItem(1, 1, 1, 113), PriceItem(1, 1, 2, 123)>> }

HostLine(res_id, detail_id, master_detail, rooms, res_status, prices, valid) ==
    [res_no |-> 1, res_id |-> res_id, global_res_guest_id |-> 1,
     detail_id |-> detail_id, master_detail |-> master_detail,
     created_on |-> DateTime(0, 1), check_out |-> DateTime(2, 0),
     rooms |-> rooms, pax |-> 2, res_status |-> res_status,
     prices |-> prices, valid |-> valid]

\* The source lines of the model.  valid = FALSE is a dict that HostReservation
\* rejects (transform raises ValueError for it); status 99 is a ConfigId
\* that the status map does not hold.
HostLines ==
    {HostLine(1, 1, 0, rs[1], rs[2], prices, TRUE) :
        rs \in {<<1, 0>>, <<2, 0>>, <<1, 7>>}, prices \in PriceLists}
    \cup
    {HostLine(2, 1, 0, 1, 0, prices, TRUE) : prices \in PriceLists}
    \cup
    {HostLine(1, detail_id, 1, 1, 0, prices, TRUE) :
        detail_id \in {1, 2}, prices \in PriceLists \ {<<>>}}
    \cup
    {HostLine(1, 1, master_detail, 1, 0, <<PriceItem(1, 0, 0, 106)>>, FALSE) :
        master_detail \in {0, 1}}
    \cup
    {HostLine(1, 1, 0, 1, 99, <<PriceItem(1, 0, 0, 106)>>, TRUE)}

\* The reservation_status_map argument, as read from the hotel configuration.
StatusMaps == { (0 :> "STANDARD") @@ (7 :> "NOSHOW") }

HotelLocalTimes == { NoTime, <<DateTime(2, 1)>> }

\* Hotel local times before, on and after the nights of the lines.
GroupLocalTimes == HotelLocalTimes \cup { <<DateTime(1, 1)>>, <<DateTime(3, 0)>> }

\* Lines for multi-line groups of up to MaxGroupLines lines: two masters
\* with different nights and Rooms, a no-show master, two children, a
\* single-line reservation of another ResId, and a master that does not parse.
GroupLines ==
    { HostLine(1, 1, 0, 1, 0, <<PriceItem(1, 0, 0, 106)>>, TRUE),
      HostLine(1, 2, 0, 2, 0, <<PriceItem(2, 0, 0, 212)>>, TRUE),
      HostLine(1, 1, 0, 1, 7, <<PriceItem(1, 0, 0, 106)>>, TRUE),
      HostLine(1, 3, 1, 1, 0,
               <<PriceItem(1, 0, 0, 106), PriceItem(1, 1, 1, 113), PriceItem(1, 1, 2, 123)>>,
               TRUE),
      HostLine(1, 4, 1, 1, 0, <<PriceItem(1, 0, 0, 106), PriceItem(2, 0, 0, 212)>>, TRUE),
      HostLine(2, 1, 0, 1, 0, <<PriceItem(1, 0, 0, 106)>>, TRUE),
      HostLine(1, 1, 0, 1, 0, <<PriceItem(1, 0, 0, 106)>>, FALSE) }

(***************************************************************************)
(* ReservationTransformer.transform                                        *)
(***************************************************************************)

\* The distinct elements of a sequence, in order of first appearance (the
\* key order of a dict filled in one pass).
DistinctInOrder(seq) ==
    LET F[i \in 0..Len(seq)] ==
            IF i = 0 THEN <<>>
            ELSE IF \E j \in 1..Len(F[i-1]) : F[i-1][j] = seq[i]
                 THEN F[i-1]
                 ELSE Append(F[i-1], seq[i])
    IN  F[Len(seq)]

SeqSum(seq) ==
    LET F[i \in 0..Len(seq)] == IF i = 0 THEN 0 ELSE F[i-1] + seq[i]
    IN  F[Len(seq)]

SetMin(S) == CHOOSE x \in S : \A y \in S : x <= y
SetMax(S) == CHOOSE x \in S : \A y \in S : x >= y

\* amount / 1.06, amount / 1.13, amount / 1.23 (IVA removed by sales
\* group), in fixed point.
NetOfIva(price_item) ==
    IF price_item.sales_group = 0 THEN (price_item.amount * 100) \div 106
    ELSE IF price_item.sales_group = 1 THEN (price_item.amount * 100) \div 113
    ELSE (price_item.amount * 100) \div 123

\* The sum, over the price items of one date, of the net amounts of one class.
DateRevenue(prices, calendar_date, class) ==
    LET ofClass(p) ==
            CASE class = "room" -> p.sales_group = 0
              [] class = "fb" -> p.sales_group = 1
              [] OTHER -> p.sales_group > 1
        items == SelectSeq(prices,
                    LAMBDA p : _get_date_string(p.date) = calendar_date /\ ofClass(p))
    IN  SeqSum([i \in 1..Len(items) |-> NetOfIva(items[i])])

\* reservation_id_external of transform: ResNo-GlobalResGuestId, with
\* -MasterDetail appended when MasterDetail > 0.  The string is modelled by
\* the sequence of its dash-separated numbers.
ExternalId(reservation) ==
    IF reservation.master_detail > 0
    THEN <<reservation.res_no, reservation.global_res_guest_id, reservation.master_detail>>
    ELSE <<reservation.res_no, reservation.global_res_guest_id>>

\* ReservationTransformer._get_price_dates_set
_get_price_dates_set(reservation) ==
    {_get_date_string(reservation.prices[i].date) : i \in 1..Len(reservation.prices)}

\* Mutant: rooms are never zeroed.
RoomsCountNoZeroing(reservation, calendar_date, status) == reservation.rooms

\* rooms of a record: 0 on or after the checkout date and for NO_SHOW.
RoomsCount(reservation, calendar_date, status) ==
    IF calendar_date >= _get_date_string(reservation.check_out) \/ status = NO_SHOW
    THEN 0
    ELSE reservation.rooms

\* Mutant: the later of the earliest price date and the hotel's date.
RecordDateStartLater(calendar_date_start, calendar_date_end, local_time) ==
    IF local_time = NoTime
    THEN calendar_date_start
    ELSE SetMax({calendar_date_start, _get_date_string(local_time[1])})

\* The start of the record_date range.
RecordDateStart(calendar_date_start, calendar_date_end, local_time) ==
    IF local_time = NoTime
    THEN calendar_date_start
    ELSE IF calendar_date_end < _get_date_string(local_time[1])
         THEN calendar_date_end
         ELSE _get_date_string(local_time[1])

\* ReservationTransformer.transform: one record per distinct price date, in
\* order of first appearance; raised = TRUE when the line does not parse.
Transform(reservation, status_map, local_time) ==
    IF ~reservation.valid
    THEN [raised |-> TRUE, records |-> <<>>]
    ELSE
    LET prices == reservation.prices
        dates == DistinctInOrder([i \in 1..Len(prices) |-> _get_date_string(prices[i].date)])
        all_dates == {dates[i] : i \in 1..Len(dates)}
        status == _get_status_code(reservation.res_status, status_map)
        record(calendar_date) ==
            LET room_revenue == DateRevenue(prices, calendar_date, "room")
                fb_revenue == DateRevenue(prices, calendar_date, "fb")
                other_revenue == DateRevenue(prices, calendar_date, "others")
            IN  [record_date |->
                     RecordDateStart(SetMin(all_dates), SetMax(all_dates), local_time),
                 calendar_date |-> calendar_date,
                 calendar_date_start |-> SetMin(all_dates),
                 calendar_date_end |-> SetMax(all_dates),
                 created_date |-> _get_date_string(reservation.created_on),
                 pax |-> reservation.pax,
                 reservation_id |-> reservation.res_id,
                 reservation_id_external |-> ExternalId(reservation),
                 revenue_fb |-> fb_revenue,
                 revenue_fb_invoice |-> fb_revenue,
                 revenue_others |-> other_revenue,
                 revenue_others_invoice |-> other_revenue,
                 revenue_room |-> room_revenue,
                 revenue_room_invoice |-> IF status = NO_SHOW THEN 0 ELSE room_revenue,
                 rooms |-> RoomsCount(reservation, calendar_date, status),
                 status |-> status]
    IN  [raised |-> FALSE,
         records |-> [i \in 1..Len(dates) |-> record(dates[i])]]


(***************************************************************************)
(* ReservationTransformer.transform_batch                                  *)
(***************************************************************************)

\* Key of step 1: (ResNo, ResId, GlobalResGuestId)
CompositeKey(reservation) ==
    <<reservation.res_no, reservation.res_id, reservation.global_res_guest_id>>

\* ReservationTransformer._group_reservations_by_composite_key: the groups
\* in order of first appearance of their key, each in input order.
_group_reservations_by_composite_key(reservations) ==
    LET keys == DistinctInOrder([i \in 1..Len(reservations) |-> CompositeKey(reservations[i])])
    IN  [g \in 1..Len(keys) |->
            [key |-> keys[g],
             reservations |-> SelectSeq(reservations, LAMBDA r : CompositeKey(r) = keys[g])]]

night_key(record) == <<record.reservation_id_external, record.calendar_date>>

\* Mutant: every materialized record is appended.
AddRecordNoLedger(acc, record) ==
    [seen |-> IF night_key(record) \in DOMAIN acc.seen
              THEN acc.seen
              ELSE acc.seen @@ (night_key(record) :> Len(acc.out)),
     out |-> Append(acc.out, record)]

\* Mutant: the revenue of a duplicate is summed into the kept record (the
\* consolidation that the docstring declares disabled).
AddRecordConsolidating(acc, record) ==
    IF night_key(record) \notin DOMAIN acc.seen
    THEN [seen |-> acc.seen @@ (night_key(record) :> Len(acc.out)),
          out |-> Append(acc.out, record)]
    ELSE [seen |-> acc.seen,
          out |-> [acc.out EXCEPT ![acc.seen[night_key(record)] + 1].revenue_room =
                                      @ + record.revenue_room]]

\* The deduplication block repeated in every branch: a record whose
\* night_key is not in seen_reservation_nights is appended and its index
\* remembered; any other record is skipped.
AddRecord(acc, record) ==
    IF night_key(record) \notin DOMAIN acc.seen
    THEN [seen |-> acc.seen @@ (night_key(record) :> Len(acc.out)),
          out |-> Append(acc.out, record)]
    ELSE acc

\* `for climber_reservation in climber_reservation_list`
AddRecords(acc, records) ==
    LET F[i \in 0..Len(records)] ==
            IF i = 0 THEN acc ELSE AddRecord(F[i-1], records[i])
    IN  F[Len(records)]

Ledger == [seen |-> seen_reservation_nights, out |-> climber_reservations]

\* The master of a multi-line group: the last line with MasterDetail = 0
\* (the loop overwrites master_reservation), or none.
MasterIndices(group) == {i \in 1..Len(group) : group[i].master_detail = 0}

\* Mutant: the master's records keep the rooms computed by transform.
MasterRecordKeepsRooms(record, master_rooms) == record

\* climber_reservation.rooms = master_rooms
MasterRecord(record, master_rooms) == [record EXCEPT !.rooms = master_rooms]

\* Mutant: the overlap record keeps its revenue.
OverlapRecordKeepsRevenue(record, res_no, global_res_guest_id, detail_id) ==
    [record EXCEPT !.rooms = 0,
                   !.reservation_id_external = <<res_no, global_res_guest_id, detail_id>>]

\* The record of a child on a date that the master also covers.
OverlapRecord(record, res_no, global_res_guest_id, detail_id) ==
    [record EXCEPT !.revenue_room = 0, !.revenue_room_invoice = 0,
                   !.revenue_fb = 0, !.revenue_fb_invoice = 0,
                   !.revenue_others = 0, !.revenue_others_invoice = 0,
                   !.rooms = 0,
                   !.reservation_id_external = <<res_no, global_res_guest_id, detail_id>>]

BatchInit ==
    /\ batch \in UNION {[1..n -> HostLines] : n \in 1..MaxLines}
    /\ feed = 1
    /\ first_output = <<>>
    /\ host_reservations = batch
    /\ reservation_status_map \in StatusMaps
    /\ hotel_local_time \in HotelLocalTimes
    /\ reservation_groups = <<>>
    /\ group_index = 1
    /\ master_price_dates = {}
    /\ child_reservations = <<>>
    /\ child_index = 1
    /\ climber_reservations = <<>>
    /\ seen_reservation_nights = <<>>
    /\ failed_count = 0
    /\ overlap_records_list = <<>>
    /\ batch_pc = "start"
    /\ PipelineIdle
    /\ StatIdle
    /\ StatusIdle
    /\ InvoiceIdle
    /\ OrchIdle
    /\ PadraoIdle
    /\ StepIdle

\* Step 1: group the lines by (ResNo, ResId, GlobalResGuestId).
GroupReservations ==
    /\ batch_pc = "start"
    /\ reservation_groups' = _group_reservations_by_composite_key(host_reservations)
    /\ group_index' = 1
    /\ batch_pc' = "groups"
    /\ UNCHANGED <<batch, feed, first_output, host_reservations, reservation_status_map,
                   hotel_local_time, master_price_dates, child_reservations, child_index,
                   climber_reservations, seen_reservation_nights, failed_count,
                   overlap_records_list, pipeline_vars, stat_vars, status_vars, invoice_vars, orch_vars, padrao_vars, step_vars>>

\* Step 2, a group of one line: transform it and add its records.
ProcessSingleReservation ==
    /\ batch_pc = "groups"
    /\ group_index <= Len(reservation_groups)
    /\ Len(reservation_groups[group_index].reservations) = 1
    /\ LET host_reservation == reservation_groups[group_index].reservations[1]
           t == Transform(host_reservation, reservation_status_map, hotel_local_time)
           acc == AddRecords(Ledger, t.records)
       IN  /\ climber_reservations' = acc.out
           /\ seen_reservation_nights' = acc.seen
           /\ failed_count' = IF t.raised THEN failed_count + 1 ELSE failed_count
    /\ group_index' = group_index + 1
    /\ UNCHANGED <<batch, feed, first_output, host_reservations, reservation_status_map,
                   hotel_local_time, reservation_groups, master_price_dates,
                   child_reservations, child_index, overlap_records_list, batch_pc,
                   pipeline_vars, stat_vars, status_vars, invoice_vars, orch_vars, padrao_vars, step_vars>>

\* Step 2, a group of several lines: find the master and the children, and
\* materialize the master with the Rooms value of the source line.
ProcessMaster ==
    /\ batch_pc = "groups"
    /\ group_index <= Len(reservation_groups)
    /\ Len(reservation_groups[group_index].reservations) > 1
    /\ LET group == reservation_groups[group_index].reservations
           children == SelectSeq(group, LAMBDA r : r.master_detail # 0)
       IN  /\ child_reservations' = children
           /\ child_index' = 1
           /\ IF children = <<>>
              THEN batch_pc' = "groups" /\ group_index' = group_index + 1
              ELSE batch_pc' = "children" /\ group_index' = group_index
           /\ IF MasterIndices(group) = {}
              THEN /\ master_price_dates' = {}
                   /\ UNCHANGED <<climber_reservations, seen_reservation_nights,
                                  failed_count>>
              ELSE LET master_reservation == group[SetMax(MasterIndices(group))]
                       master_rooms == master_reservation.rooms
                       t == Transform(master_reservation, reservation_status_map,
                                      hotel_local_time)
                       acc == AddRecords(Ledger,
                                  [i \in 1..Len(t.records) |->
                                      MasterRecord(t.records[i], master_rooms)])
                   IN  /\ master_price_dates' = _get_price_dates_set(master_reservation)
                       /\ climber_reservations' = acc.out
                       /\ seen_reservation_nights' = acc.seen
                       /\ failed_count' = IF t.raised THEN failed_count + 1
                                          ELSE failed_count
    /\ UNCHANGED <<batch, feed, first_output, host_reservations, reservation_status_map,
                   hotel_local_time, reservation_groups, overlap_records_list,
                   pipeline_vars, stat_vars, status_vars, invoice_vars, orch_vars, padrao_vars, step_vars>>

\* Step 2, one child of a multi-line group: dates shared with the master
\* become zero-revenue overlap records, other dates are materialized as is.
ProcessChild ==
    /\ batch_pc = "children"
    /\ child_index <= Len(child_reservations)
    /\ LET key == reservation_groups[group_index].key
           res_no == key[1]
           global_res_guest_id == key[3]
           child_reservation == child_reservations[child_index]
           detail_id == child_reservation.detail_id
           child_price_dates == _get_price_dates_set(child_reservation)
           overlapping_dates == child_price_dates \cap master_price_dates
           non_overlapping_dates == child_price_dates \ master_price_dates
           t == Transform(child_reservation, reservation_status_map, hotel_local_time)
           materialized ==
               [i \in 1..Len(t.records) |->
                   IF overlapping_dates # {} /\ t.records[i].calendar_date \in overlapping_dates
                   THEN OverlapRecord(t.records[i], res_no, global_res_guest_id, detail_id)
                   ELSE t.records[i]]
           overlaps ==
               SelectSeq(materialized,
                         LAMBDA r : overlapping_dates # {} /\ r.calendar_date \in overlapping_dates)
           acc == AddRecords(Ledger, materialized)
       IN  IF overlapping_dates = {} /\ non_overlapping_dates = {}
           THEN UNCHANGED <<climber_reservations, seen_reservation_nights, failed_count,
                            overlap_records_list>>
           ELSE /\ climber_reservations' = acc.out
                /\ seen_reservation_nights' = acc.seen
                /\ failed_count' = IF t.raised THEN failed_count + 1 ELSE failed_count
                /\ overlap_records_list' =
                       overlap_records_list \o
                       [i \in 1..Len(overlaps) |->
                           [res_no |-> res_no,
                            global_res_guest_id |-> global_res_guest_id,
                            detail_id |-> detail_id,
                            calendar_date |-> overlaps[i].calendar_date,
                            reservation_external_id |-> overlaps[i].reservation_id_external]]
    /\ IF child_index = Len(child_reservations)
       THEN batch_pc' = "groups" /\ group_index' = group_index + 1
       ELSE batch_pc' = "children" /\ group_index' = group_index
    /\ child_index' = child_index + 1
    /\ UNCHANGED <<batch, feed, first_output, host_reservations, reservation_status_map,
                   hotel_local_time, reservation_groups, master_price_dates,
                   child_reservations, pipeline_vars, stat_vars, status_vars, invoice_vars, orch_vars, padrao_vars, step_vars>>

\* The collection is created and returned.
ReturnCollection ==
    /\ batch_pc = "groups"
    /\ group_index > Len(reservation_groups)
    /\ batch_pc' = "done"
    /\ first_output' = IF feed = 1 THEN climber_reservations ELSE first_output
    /\ UNCHANGED <<batch, feed, host_reservations, reservation_status_map,
                   hotel_local_time, reservation_groups, group_index, master_price_dates,
                   child_reservations, child_index, climber_reservations,
                   seen_reservation_nights, failed_count, overlap_records_list,
                   pipeline_vars, stat_vars, status_vars, invoice_vars, orch_vars, padrao_vars, step_vars>>

\* A second call of transform_batch, on the batch followed by itself.
FeedBatchTwice ==
    /\ batch_pc = "done"
    /\ feed = 1
    /\ feed' = 2
    /\ host_reservations' = batch \o batch
    /\ reservation_groups' = <<>>
    /\ group_index' = 1
    /\ master_price_dates' = {}
    /\ child_reservations' = <<>>
    /\ child_index' = 1
    /\ climber_reservations' = <<>>
    /\ seen_reservation_nights' = <<>>
    /\ failed_count' = 0
    /\ overlap_records_list' = <<>>
    /\ batch_pc' = "start"
    /\ UNCHANGED <<batch, first_output, reservation_status_map, hotel_local_time,
                   pipeline_vars, stat_vars, status_vars, invoice_vars, orch_vars, padrao_vars, step_vars>>

\* One call of transform_batch on the batch.
BatchNext ==
    \/ GroupReservations
    \/ ProcessSingleReservation
    \/ ProcessMaster
    \/ ProcessChild
    \/ ReturnCollection

BatchSpec == BatchInit /\ [][BatchNext]_vars

\* One call of transform_batch on a batch of up to MaxGroupLines lines.
GroupInit ==
    /\ batch \in UNION {[1..n -> GroupLines] : n \in 1..MaxGroupLines}
    /\ feed = 1
    /\ first_output = <<>>
    /\ host_reservations = batch
    /\ reservation_status_map \in StatusMaps
    /\ hotel_local_time \in GroupLocalTimes
    /\ reservation_groups = <<>>
    /\ group_index = 1
    /\ master_price_dates = {}
    /\ child_reservations = <<>>
    /\ child_index = 1
    /\ climber_reservations = <<>>
    /\ seen_reservation_nights = <<>>
    /\ failed_count = 0
    /\ overlap_records_list = <<>>
    /\ batch_pc = "start"
    /\ PipelineIdle
    /\ StatIdle
    /\ StatusIdle
    /\ InvoiceIdle
    /\ OrchIdle
    /\ PadraoIdle
    /\ StepIdle

GroupSpec == GroupInit /\ [][BatchNext]_vars

\* A call on the batch, then a call on the batch fed twice.
TwiceNext ==
    \/ GroupReservations
    \/ ProcessSingleReservation
    \/ ProcessMaster
    \/ ProcessChild
    \/ ReturnCollection
    \/ FeedBatchTwice

TwiceSpec == BatchInit /\ [][TwiceNext]_vars


(***************************************************************************)
(* Properties of ReservationTransformer.transform_batch                    *)
(***************************************************************************)
RecordSet(records) == {records[i] : i \in 1..Len(records)}

\* Two lines of different groups that materialize the same
\* (reservation_id_external, calendar_date).
CollidingLines(i, j) ==
    /\ i < j
    /\ host_reservations[i].valid /\ host_reservations[j].valid
    /\ CompositeKey(host_reservations[i]) # CompositeKey(host_reservations[j])
    /\ ExternalId(host_reservations[i]) = ExternalId(host_reservations[j])
    /\ _get_price_dates_set(host_reservations[i])
         \cap _get_price_dates_set(host_reservations[j]) # {}

C8_KeptRecordUnchanged ==
    [][feed' = feed =>
        /\ Len(climber_reservations') >= Len(climber_reservations)
        /\ \A i \in 1..Len(climber_reservations) :
              climber_reservations'[i] = climber_reservations[i]
        /\ \A k \in DOMAIN seen_reservation_nights :
              /\ k \in DOMAIN seen_reservation_nights'
              /\ seen_reservation_nights'[k] = seen_reservation_nights[k]
        /\ \A k \in DOMAIN seen_reservation_nights' :
              night_key(climber_reservations'[seen_reservation_nights'[k] + 1]) = k]_vars

C8_Witness ==
    /\ batch_pc = "done"
    /\ Len(host_reservations) = 2
    /\ CollidingLines(1, 2)
    /\ \A i \in 1..Len(climber_reservations) :
          climber_reservations[i].reservation_id = host_reservations[1].res_id
    /\ \E i \in 1..Len(climber_reservations) :
          /\ climber_reservations[i].calendar_date
                \in _get_price_dates_set(host_reservations[2])
          /\ climber_reservations[i].revenue_room > 0

\* C9 (as claimed): the batch fed twice yields the same set of records,
\* field for field, as the batch fed once.
C9_FedTwiceSameRecords ==
    (batch_pc = "done" /\ feed = 2)
    => RecordSet(climber_reservations) = RecordSet(first_output)

(***************************************************************************)
(* StatDaily records (models/host/stat_daily.py) and the constants of      *)
(* transformers/stat_daily_to_reservation_transformer.py                   *)
(*                                                                         *)
(* The transformer's source repeats several statements verbatim (a         *)
(* parameter, a keyword argument, an `if` header, whole helper bodies).    *)
(* The model follows each repeated statement once.                         *)
(***************************************************************************)
ROOM_CHARGE_CODES == {"ALOJ", "OB", "TXCANCEL"}
NOSHOW_CHARGE_CODES == {"NOSHOW"}

OCCUPANCY_TYPES == {"HISTORY-OCCUPANCY", "FORECAST-OCCUPANCY"}
REVENUE_TYPES == {"HISTORY-REVENUE", "FORECAST-REVENUE"}

\* STATUS_MAP.get(res_status, 3)
STATUS_MAP(res_status) ==
    CASE res_status = 0  -> 3
      [] res_status = 2  -> 5
      [] res_status = 3  -> 5
      [] res_status = 5  -> 0
      [] res_status = 6  -> 0
      [] res_status = 7  -> 4
      [] res_status = 8  -> 0
      [] res_status = 10 -> 1
      [] res_status = 20 -> 2
      [] OTHER           -> 3

\* str.strip, str.upper and str.split("|")[0] on the strings of the model
Strip(value) ==
    CASE value = "  "    -> ""
      [] value = " "     -> ""
      [] value = " DBL " -> "DBL"
      [] OTHER           -> value

Upper(value) ==
    CASE value = "Room" -> "ROOM"
      [] value = "room" -> "ROOM"
      [] OTHER          -> value

FirstPart(pack) ==
    CASE pack = "AP|RO" -> "AP"
      [] pack = " |RO"  -> " "
      [] OTHER          -> pack

\* The ten descriptive fields of a record: all filled, or each absent in
\* one of the ways the API delivers it (None, empty, blank).
FilledSegments ==
    [category |-> " DBL ", agency |-> "AG", channel_description |-> "WEB",
     company |-> "CO", cro |-> "CRO", groupname |-> "GRP", pack |-> "AP|RO",
     price_list |-> "BAR", segment_description |-> "LEI",
     sub_segment_description |-> "SUB"]

BlankSegments ==
    [category |-> None, agency |-> "", channel_description |-> "  ",
     company |-> None, cro |-> None, groupname |-> None, pack |-> " |RO",
     price_list |-> None, segment_description |-> None,
     sub_segment_description |-> None]

StatRecord(record_type, res_id, master_detail, hotel_date, res_status, room_nights, charge_code, revenue_net, segments, valid) ==
    [record_type |-> record_type, hotel_date |-> hotel_date, res_no |-> 1,
     res_id |-> res_id, master_detail |-> master_detail, global_res_guest_id |-> 1,
     created_on |-> DateTime(0, 1), check_in |-> DateTime(1, 0),
     check_out |-> DateTime(3, 0), res_status |-> res_status,
     pax |-> 2 * room_nights, room_nights |-> room_nights,
     charge_code |-> charge_code, revenue_net |-> revenue_net,
     segments |-> segments, valid |-> valid]

Occupancy(record_type, res_id, master_detail, hotel_date, res_status, segments) ==
    StatRecord(record_type, res_id, master_detail, hotel_date, res_status, 1, None, 0,
               segments, TRUE)

Revenue(record_type, res_id, master_detail, res_status, charge_code, revenue_net) ==
    StatRecord(record_type, res_id, master_detail, DateTime(1, 0), res_status, 0,
               charge_code, revenue_net, FilledSegments, TRUE)

StatRecords ==
    {Occupancy("HISTORY-OCCUPANCY", id, 0, DateTime(1, 0), rs, FilledSegments) :
        id \in {1, 2}, rs \in {0, 6, 7}}
    \cup {Occupancy("FORECAST-OCCUPANCY", 1, 0, DateTime(1, 0), 0, FilledSegments),
          Occupancy("HISTORY-OCCUPANCY", 1, 1, DateTime(1, 0), 0, FilledSegments),
          Occupancy("HISTORY-OCCUPANCY", 1, 0, DateTime(1, 1), 0, FilledSegments),
          Occupancy("HISTORY-OCCUPANCY", 1, 0, DateTime(2, 0), 0, FilledSegments),
          Occupancy("HISTORY-OCCUPANCY", 1, 0, DateTime(1, 0), 0, BlankSegments),
          Occupancy("HISTORY-OCCUPANCY", 1, 0, DateTime(1, 0), 99, FilledSegments)}
    \cup {Revenue("HISTORY-REVENUE", id, 0, 0, code, 100) :
        id \in {1, 2}, code \in {"ALOJ", "NOSHOW", "PA", "EXTRA"}}
    \cup {Revenue("FORECAST-REVENUE", 1, 0, 0, "ALOJ", 100),
          Revenue("HISTORY-REVENUE", 1, 0, 6, "ALOJ", 100),
          Revenue("HISTORY-REVENUE", 1, 0, 0, "ALOJ", -50),
          Revenue("HISTORY-REVENUE", 1, 1, 0, "ALOJ", 100),
          Revenue("OTHER", 1, 0, 0, "ALOJ", 100)}
    \cup {StatRecord("HISTORY-OCCUPANCY", 1, 0, DateTime(1, 0), 0, 1, None, 0,
                     FilledSegments, FALSE)}

\* Hotel configurations: none, one whose charges name EXTRA as a room
\* charge, one with no room charge, and one that fails validation.
Charge(code, sales_group) == [code |-> code, sales_group |-> sales_group]

ConfigResponses ==
    { <<>>,
      <<[valid |-> TRUE,
         charges |-> <<Charge("ALOJ", "ROOM"), Charge("EXTRA", "Room"),
                       Charge("PA", "F&B"), Charge("", "ROOM")>>]>>,
      <<[valid |-> TRUE, charges |-> <<Charge("PA", "F&B"), Charge("ALOJ", "N/A")>>]>>,
      <<[valid |-> FALSE, charges |-> <<>>]>> }

\* datetime.now().date() when no hotel local time is passed
WallClock == DateTime(9, 0)

StatLocalTimes == { NoTime, <<DateTime(4, 1)>> }

(***************************************************************************)
(* StatDailyToReservationTransformer                                       *)
(***************************************************************************)
Truthy(value) == value # None /\ value # ""

\* Mutant: the sales-group label is compared case-sensitively.
ExtractRoomChargeCodesCaseSensitive(config) ==
    IF config = <<>> THEN ROOM_CHARGE_CODES
    ELSE IF ~config[1].valid THEN ROOM_CHARGE_CODES
    ELSE LET charges == config[1].charges
             codes == {charges[i].code : i \in
                          {k \in 1..Len(charges) :
                              /\ charges[k].sales_group = "ROOM"
                              /\ Truthy(charges[k].code)}}
         IN  IF codes # {} THEN codes ELSE ROOM_CHARGE_CODES

_extract_room_charge_codes(config) ==
    IF config = <<>> THEN ROOM_CHARGE_CODES
    ELSE IF ~config[1].valid THEN ROOM_CHARGE_CODES
    ELSE LET charges == config[1].charges
             codes == {charges[i].code : i \in
                          {k \in 1..Len(charges) :
                              /\ Truthy(charges[k].sales_group)
                              /\ Upper(charges[k].sales_group) = "ROOM"
                              /\ Truthy(charges[k].code)}}
         IN  IF codes # {} THEN codes ELSE ROOM_CHARGE_CODES

_parse_stat_daily_records(records) == SelectSeq(records, LAMBDA r : r.valid)

_extract_date_string(dt) == dt.date

\* Mutant: the key leaves out res_id.
StatGroupKeyWithoutResId(record) ==
    <<record.res_no, record.global_res_guest_id, 0,
      _extract_date_string(record.hotel_date)>>

\* Key of step 3: (res_no, global_res_guest_id, res_id, hotel date)
StatGroupKey(record) ==
    <<record.res_no, record.global_res_guest_id, record.res_id,
      _extract_date_string(record.hotel_date)>>

_group_stat_daily_by_reservation_day(records) ==
    LET keys == DistinctInOrder([i \in 1..Len(records) |-> StatGroupKey(records[i])])
    IN  [g \in 1..Len(keys) |->
            [key |-> keys[g],
             records |-> SelectSeq(records, LAMBDA r : StatGroupKey(r) = keys[g])]]

_get_segment_code(value) ==
    IF Truthy(value) /\ Strip(value) # "" THEN Strip(value) ELSE "UNASSIGNED"

_extract_package_code(pack) ==
    IF Truthy(pack) /\ Strip(pack) # "" THEN Strip(FirstPart(pack)) ELSE "UNASSIGNED"

\* f"{res_no}-{global_res_guest_id}" or f"{res_no}-{global_res_guest_id}-{master_detail}"
StatExternalId(base_record) ==
    IF base_record.master_detail > 0
    THEN <<base_record.res_no, base_record.global_res_guest_id, base_record.master_detail>>
    ELSE <<base_record.res_no, base_record.global_res_guest_id>>

\* The records of a group that carry occupancy, and those that carry
\* revenue under a room or a no-show charge code.
OccupancyRecords(records) ==
    SelectSeq(records, LAMBDA r : r.record_type \in OCCUPANCY_TYPES)

\* Mutant: every revenue record is taken, whatever its charge code.
RevenueRecordsUnfiltered(records, codes) ==
    SelectSeq(records, LAMBDA r : r.record_type \in REVENUE_TYPES)

RevenueRecords(records, codes) ==
    SelectSeq(records, LAMBDA r :
        /\ r.record_type \in REVENUE_TYPES
        /\ (r.charge_code \in codes \/ r.charge_code \in NOSHOW_CHARGE_CODES))

BaseRecord(records, codes) ==
    IF OccupancyRecords(records) # <<>> THEN OccupancyRecords(records)[1]
    ELSE IF RevenueRecords(records, codes) # <<>> THEN RevenueRecords(records, codes)[1]
    ELSE records[1]

\* Revenue of the group's revenue records whose charge code is in `class`.
StatRevenue(revenue_records, class) ==
    SeqSum([i \in 1..Len(revenue_records) |->
                IF revenue_records[i].charge_code \in class
                THEN revenue_records[i].revenue_net ELSE 0])

StatStatus(res_status, is_noshow) ==
    IF is_noshow THEN NO_SHOW ELSE STATUS_MAP(res_status)

\* Mutant: a cancelled group keeps its room-nights.
StatRoomsKeepCancelled(res_status, rooms) == rooms

\* rooms = 0 for CXL
StatRooms(res_status, rooms) == IF res_status = 6 THEN 0 ELSE rooms

\* Mutant: occupancy is read from the first occupancy record only.
StatRoomNightsFirstOnly(occupancy_records) ==
    IF occupancy_records # <<>> THEN occupancy_records[1].room_nights ELSE 0

\* rooms and pax before the cancellation override: the sums over all
\* occupancy records, 0 when there is none.
StatRoomNights(occupancy_records) ==
    IF occupancy_records # <<>>
    THEN SeqSum([i \in 1..Len(occupancy_records) |-> occupancy_records[i].room_nights])
    ELSE 0

StatPax(occupancy_records) ==
    IF occupancy_records # <<>>
    THEN SeqSum([i \in 1..Len(occupancy_records) |-> occupancy_records[i].pax])
    ELSE 0

_transform_group_to_reservation(records, local_time, codes) ==
    LET occupancy_records == OccupancyRecords(records)
        revenue_records == RevenueRecords(records, codes)
        base_record == BaseRecord(records, codes)
        record_date == IF local_time # NoTime THEN local_time[1].date ELSE WallClock.date
        rooms == StatRoomNights(occupancy_records)
        pax == StatPax(occupancy_records)
        room_code == IF occupancy_records # <<>>
                     THEN _get_segment_code(occupancy_records[1].segments.category)
                     ELSE "UNASSIGNED"
        is_noshow == \E i \in 1..Len(revenue_records) :
                        revenue_records[i].charge_code \in NOSHOW_CHARGE_CODES
        revenue_room == StatRevenue(revenue_records, NOSHOW_CHARGE_CODES)
                        + StatRevenue(revenue_records, codes \ NOSHOW_CHARGE_CODES)
        revenue_others ==
            SeqSum([i \in 1..Len(revenue_records) |->
                       IF revenue_records[i].charge_code \notin (codes \cup NOSHOW_CHARGE_CODES)
                       THEN revenue_records[i].revenue_net ELSE 0])
        seg == base_record.segments
    IN  [record_date |-> record_date,
         calendar_date |-> _extract_date_string(base_record.hotel_date),
         calendar_date_start |-> _extract_date_string(base_record.check_in),
         calendar_date_end |-> _extract_date_string(base_record.check_out),
         created_date |-> _extract_date_string(base_record.created_on),
         pax |-> pax,
         reservation_id |-> base_record.res_id,
         reservation_id_external |-> StatExternalId(base_record),
         revenue_fb |-> 0,
         revenue_fb_invoice |-> 0,
         revenue_others |-> revenue_others,
         revenue_others_invoice |-> revenue_others,
         revenue_room |-> revenue_room,
         revenue_room_invoice |-> revenue_room,
         rooms |-> StatRooms(base_record.res_status, rooms),
         status |-> StatStatus(base_record.res_status, is_noshow),
         agency_code |-> _get_segment_code(seg.agency),
         channel_code |-> _get_segment_code(seg.channel_description),
         company_code |-> _get_segment_code(seg.company),
         cro_code |-> _get_segment_code(seg.cro),
         group_code |-> _get_segment_code(seg.groupname),
         package_code |-> _extract_package_code(seg.pack),
         rate_code |-> _get_segment_code(seg.price_list),
         room_code |-> room_code,
         segment_code |-> _get_segment_code(seg.segment_description),
         sub_segment_code |-> _get_segment_code(seg.sub_segment_description)]

(***************************************************************************)
(* StatDailyToReservationTransformer.transform_batch as a state machine    *)
(***************************************************************************)
StatDailyInit ==
    /\ stat_daily_records \in UNION {[1..n -> StatRecords] : n \in 0..MaxStatRecords}
    /\ config_response \in ConfigResponses
    /\ stat_local_time \in StatLocalTimes
    /\ room_charge_codes = {}
    /\ parsed_records = <<>>
    /\ stat_groups = <<>>
    /\ stat_group_index = 1
    /\ stat_reservations = <<>>
    /\ stat_failed_count = 0
    /\ stat_pc = "start"
    /\ PipelineIdle
    /\ BatchIdle
    /\ StatusIdle
    /\ InvoiceIdle
    /\ OrchIdle
    /\ PadraoIdle
    /\ StepIdle

\* Steps 1 and 2: charge codes from the configuration, records parsed; an
\* empty parse returns the empty collection at once.
ParseStatDaily ==
    /\ stat_pc = "start"
    /\ room_charge_codes' = _extract_room_charge_codes(config_response)
    /\ parsed_records' = _parse_stat_daily_records(stat_daily_records)
    /\ stat_pc' = IF parsed_records' = <<>> THEN "done" ELSE "group"
    /\ UNCHANGED <<stat_daily_records, config_response, stat_local_time, stat_groups,
                   stat_group_index, stat_reservations, stat_failed_count,
                   pipeline_vars, batch_vars, status_vars, invoice_vars, orch_vars, padrao_vars, step_vars>>

\* Step 3
GroupStatDaily ==
    /\ stat_pc = "group"
    /\ stat_groups' = _group_stat_daily_by_reservation_day(parsed_records)
    /\ stat_group_index' = 1
    /\ stat_pc' = "transform"
    /\ UNCHANGED <<stat_daily_records, config_response, stat_local_time,
                   room_charge_codes, parsed_records, stat_reservations,
                   stat_failed_count, pipeline_vars, batch_vars, status_vars, invoice_vars, orch_vars, padrao_vars, step_vars>>

\* Step 4, one iteration of the loop over groups.items(): the group's
\* reservation is appended to the output; nothing is compared with the
\* reservations already there.
TransformGroup ==
    /\ stat_pc = "transform"
    /\ stat_group_index <= Len(stat_groups)
    /\ LET reservation == _transform_group_to_reservation(
                              stat_groups[stat_group_index].records,
                              stat_local_time, room_charge_codes)
       IN  stat_reservations' = Append(stat_reservations, reservation)
    /\ stat_group_index' = stat_group_index + 1
    /\ UNCHANGED <<stat_daily_records, config_response, stat_local_time,
                   room_charge_codes, parsed_records, stat_groups, stat_failed_count,
                   stat_pc, pipeline_vars, batch_vars, status_vars, invoice_vars, orch_vars, padrao_vars, step_vars>>

\* Step 5
ReturnStatCollection ==
    /\ stat_pc = "transform"
    /\ stat_group_index > Len(stat_groups)
    /\ stat_pc' = "done"
    /\ UNCHANGED <<stat_daily_records, config_response, stat_local_time,
                   room_charge_codes, parsed_records, stat_groups, stat_group_index,
                   stat_reservations, stat_failed_count, pipeline_vars, batch_vars, status_vars, invoice_vars, orch_vars, padrao_vars, step_vars>>

StatDailyNext ==
    \/ ParseStatDaily
    \/ GroupStatDaily
    \/ TransformGroup
    \/ ReturnStatCollection

StatDailySpec == StatDailyInit /\ [][StatDailyNext]_vars

(***************************************************************************)
(* Properties of StatDailyToReservationTransformer.transform_batch         *)
(***************************************************************************)

\* C10 (as claimed): the output holds at most one record per
\* (reservation_id_external, calendar_date), also when input records agree
\* on ResNo, GlobalResGuestId and stay date and differ in ResId.
C10_OneRecordPerStatDailyNight ==
    \A i, j \in 1..Len(stat_reservations) :
        night_key(stat_reservations[i]) = night_key(stat_reservations[j]) => i = j

(***************************************************************************)
(* Properties of multi-line groups in ReservationTransformer.transform_batch *)
(***************************************************************************)

\* The records appended to the output by the step being taken.
NewRecords ==
    {climber_reservations'[k] : k \in (Len(climber_reservations) + 1)..Len(climber_reservations')}

ZeroRevenue(record) ==
    /\ record.revenue_room = 0 /\ record.revenue_room_invoice = 0
    /\ record.revenue_fb = 0 /\ record.revenue_fb_invoice = 0
    /\ record.revenue_others = 0 /\ record.revenue_others_invoice = 0

\* The dates a child shares with some well-formed line of its group that
\* has MasterDetail = 0.
SharedDates(group, child) ==
    {d \in _get_price_dates_set(child) :
        \E i \in MasterIndices(group) :
            group[i].valid /\ d \in _get_price_dates_set(group[i])}

\* The record of a master line on a date keeps the revenue of the line's
\* own prices and the line's Rooms.
KeepsMasterValues(record, master) ==
    /\ record.calendar_date \in _get_price_dates_set(master)
    /\ record.rooms = master.rooms
    /\ record.revenue_room = DateRevenue(master.prices, record.calendar_date, "room")
    /\ record.revenue_fb = DateRevenue(master.prices, record.calendar_date, "fb")
    /\ record.revenue_others = DateRevenue(master.prices, record.calendar_date, "others")

\* C11 (as claimed): in a group holding a line with MasterDetail = 0 and a
\* child that shares a price date d with it, the record emitted for the
\* child at d has rooms 0, every revenue field 0 and the external id
\* ResNo-GlobalResGuestId-DetailId, and the records emitted for the master
\* keep the master's own revenue and Rooms.
C11_OverlapZeroInvariant ==
    [][/\ (batch_pc = "children" /\ child_index <= Len(child_reservations)) =>
            LET group == reservation_groups[group_index].reservations
                child == child_reservations[child_index]
            IN  \A r \in NewRecords :
                    r.calendar_date \in SharedDates(group, child) =>
                        /\ r.rooms = 0
                        /\ ZeroRevenue(r)
                        /\ r.reservation_id_external
                             = <<child.res_no, child.global_res_guest_id, child.detail_id>>
       /\ (batch_pc = "groups" /\ group_index <= Len(reservation_groups)
              /\ Len(reservation_groups[group_index].reservations) > 1) =>
            LET group == reservation_groups[group_index].reservations
            IN  \A r \in NewRecords :
                    \E i \in MasterIndices(group) : KeepsMasterValues(r, group[i])]_vars

\* The groups of the call, as step 1 forms them.
GroupsOfCall == _group_reservations_by_composite_key(host_reservations)

\* Another line of the batch that materializes the same night under the
\* same external id.
SameNightElsewhere(g, i, d) ==
    \E h \in 1..Len(GroupsOfCall) : \E j \in 1..Len(GroupsOfCall[h].reservations) :
        /\ <<h, j>> # <<g, i>>
        /\ ExternalId(GroupsOfCall[h].reservations[j]) = ExternalId(GroupsOfCall[g].reservations[i])
        /\ d \in _get_price_dates_set(GroupsOfCall[h].reservations[j])

\* C12 (as claimed): when the call returns, every well-formed line with
\* MasterDetail = 0 of every multi-line group has, for each of its price
\* dates, a record in the output under its external id and that date, and
\* the record carries the line's Rooms (unless another line emitted that
\* key); this also in groups with several MasterDetail = 0 lines.
C12_EveryMasterMaterialized ==
    batch_pc = "done" =>
        \A g \in 1..Len(GroupsOfCall) :
            LET group == GroupsOfCall[g].reservations
            IN  Len(group) > 1 =>
                \A i \in MasterIndices(group) : group[i].valid =>
                    \A d \in _get_price_dates_set(group[i]) :
                        \E k \in 1..Len(climber_reservations) :
                            /\ night_key(climber_reservations[k]) = <<ExternalId(group[i]), d>>
                            /\ (climber_reservations[k].rooms = group[i].rooms
                                \/ SameNightElsewhere(g, i, d))

(***************************************************************************)
(* Properties of ReservationTransformer.transform                          *)
(***************************************************************************)

\* C13: every record that transform emits for a single-line reservation
\* has rooms 0 when its date is on or after the checkout date or the
\* translated status is NO_SHOW, and the source Rooms otherwise; its room,
\* F&B and other revenue are the sums over that date's price lines in
\* every case.
C13_SingleLineRoomsAndRevenue ==
    [][(/\ batch_pc = "groups"
        /\ group_index <= Len(reservation_groups)
        /\ Len(reservation_groups[group_index].reservations) = 1) =>
            LET line == reservation_groups[group_index].reservations[1]
                no_show == _get_status_code(line.res_status, reservation_status_map) = NO_SHOW
            IN  \A r \in NewRecords :
                    /\ r.rooms = IF r.calendar_date >= line.check_out.date \/ no_show
                                 THEN 0 ELSE line.rooms
                    /\ r.revenue_room = DateRevenue(line.prices, r.calendar_date, "room")
                    /\ r.revenue_fb = DateRevenue(line.prices, r.calendar_date, "fb")
                    /\ r.revenue_others = DateRevenue(line.prices, r.calendar_date, "others")]_vars

C13_Witness ==
    /\ batch_pc = "done"
    /\ \A g \in 1..Len(reservation_groups) : Len(reservation_groups[g].reservations) = 1
    /\ \E i, j \in 1..Len(climber_reservations) :
          /\ climber_reservations[i].status = NO_SHOW
          /\ climber_reservations[i].calendar_date < 2
          /\ climber_reservations[i].rooms = 0
          /\ climber_reservations[i].revenue_room > 0
          /\ climber_reservations[j].status # NO_SHOW
          /\ climber_reservations[j].calendar_date >= 2
          /\ climber_reservations[j].rooms = 0
          /\ climber_reservations[j].revenue_room > 0

(***************************************************************************)
(* Properties of the records of both batch transformers                    *)
(***************************************************************************)

\* C14 (as claimed): every record with status NO_SHOW in the output of
\* either batch transformer has rooms 0.
C14_NoShowHasNoRooms ==
    /\ \A k \in 1..Len(stat_reservations) :
          stat_reservations[k].status = NO_SHOW => stat_reservations[k].rooms = 0
    /\ \A k \in 1..Len(climber_reservations) :
          climber_reservations[k].status = NO_SHOW => climber_reservations[k].rooms = 0

\* Either batch transformer is run once.
EitherInit == GroupInit \/ StatDailyInit

EitherNext ==
    \/ GroupReservations
    \/ ProcessSingleReservation
    \/ ProcessMaster
    \/ ProcessChild
    \/ ReturnCollection
    \/ ParseStatDaily
    \/ GroupStatDaily
    \/ TransformGroup
    \/ ReturnStatCollection

EitherSpec == EitherInit /\ [][EitherNext]_vars

\* C15 (as claimed): with a hotel local time, record_date starts at the
\* later of the earliest covered stay-date and the hotel's local date;
\* without one, at the earliest covered date (price-based pipeline) or at
\* the wall-clock date (StatDaily pipeline).
C15_RecordDateLaterOfStartAndHotelDate ==
    /\ \A k \in 1..Len(climber_reservations) :
          climber_reservations[k].record_date =
              IF hotel_local_time = NoTime
              THEN climber_reservations[k].calendar_date_start
              ELSE SetMax({climber_reservations[k].calendar_date_start,
                           hotel_local_time[1].date})
    /\ \A k \in 1..Len(stat_reservations) :
          stat_reservations[k].record_date =
              IF stat_local_time = NoTime
              THEN WallClock.date
              ELSE SetMax({stat_reservations[k].calendar_date_start,
                           stat_local_time[1].date})

\* C15 (amended): with a hotel local time, record_date starts at the
\* earlier of the latest covered stay-date and the hotel's local date in
\* the price-based pipeline, and at the hotel's local date in the StatDaily
\* pipeline; without one, at the earliest covered date (price-based) or at
\* the wall-clock date (StatDaily).
C15_RecordDateEarlierOfEndAndHotelDate ==
    /\ \A k \in 1..Len(climber_reservations) :
          climber_reservations[k].record_date =
              IF hotel_local_time = NoTime
              THEN climber_reservations[k].calendar_date_start
              ELSE SetMin({climber_reservations[k].calendar_date_end,
                           hotel_local_time[1].date})
    /\ \A k \in 1..Len(stat_reservations) :
          stat_reservations[k].record_date =
              IF stat_local_time = NoTime
              THEN WallClock.date
              ELSE stat_local_time[1].date

C15_Witness ==
    /\ batch_pc = "done"
    /\ hotel_local_time # NoTime
    /\ \E i, j \in 1..Len(climber_reservations) :
          /\ climber_reservations[i].calendar_date_end < hotel_local_time[1].date
          /\ climber_reservations[i].record_date = climber_reservations[i].calendar_date_end
          /\ climber_reservations[j].calendar_date_start < hotel_local_time[1].date
          /\ climber_reservations[j].calendar_date_end >= hotel_local_time[1].date
          /\ climber_reservations[j].record_date = hotel_local_time[1].date

(***************************************************************************)
(* Properties of StatDailyToReservationTransformer                         *)
(***************************************************************************)

\* (reservation number, guest-association id, internal id, stay-date)
ReservationDay(record) ==
    <<record.res_no, record.global_res_guest_id, record.res_id, record.hotel_date.date>>

\* C16: the groups partition the parsed records: no group is empty, the
\* groups hold as many records as were parsed, two groups never have the
\* same reservation-day, and each group is exactly the records of its
\* reservation-day in input order.
C16_GroupingCorrectness ==
    stat_pc = "transform" =>
        /\ SeqSum([g \in 1..Len(stat_groups) |-> Len(stat_groups[g].records)])
             = Len(parsed_records)
        /\ \A g \in 1..Len(stat_groups) :
              /\ stat_groups[g].records # <<>>
              /\ stat_groups[g].records =
                    SelectSeq(parsed_records,
                        LAMBDA r : ReservationDay(r) = ReservationDay(stat_groups[g].records[1]))
        /\ \A g, h \in 1..Len(stat_groups) :
              ReservationDay(stat_groups[g].records[1]) = ReservationDay(stat_groups[h].records[1])
                  => g = h

C16_Witness ==
    /\ stat_pc = "transform"
    /\ Len(parsed_records) = 2
    /\ Len(stat_groups) = 1
    /\ parsed_records[1].hotel_date # parsed_records[2].hotel_date
    /\ parsed_records[1].record_type # parsed_records[2].record_type

\* The records of the group that the k-th output record was made from
\* (every group yields one record, in the order of the groups).
GroupOf(k) == stat_groups[k].records

OccupancyOf(k) == SelectSeq(GroupOf(k), LAMBDA r : r.record_type \in OCCUPANCY_TYPES)

\* C17: for a group whose source status (that of its first occupancy
\* record) is not CXL, rooms is the sum of room-nights and pax the sum of
\* pax over all its occupancy records, history and forecast; a group with
\* no occupancy record has rooms 0 and pax 0.
C17_OccupancySummed ==
    \A k \in 1..Len(stat_reservations) :
        IF OccupancyOf(k) = <<>>
        THEN stat_reservations[k].rooms = 0 /\ stat_reservations[k].pax = 0
        ELSE OccupancyOf(k)[1].res_status # 6 =>
                /\ stat_reservations[k].rooms =
                      SeqSum([i \in 1..Len(OccupancyOf(k)) |-> OccupancyOf(k)[i].room_nights])
                /\ stat_reservations[k].pax =
                      SeqSum([i \in 1..Len(OccupancyOf(k)) |-> OccupancyOf(k)[i].pax])

C17_Witness ==
    /\ stat_pc = "done"
    /\ Len(stat_reservations) = 1
    /\ Len(OccupancyOf(1)) = 2
    /\ OccupancyOf(1)[1].record_type # OccupancyOf(1)[2].record_type
    /\ OccupancyOf(1)[1].res_status # 6
    /\ stat_reservations[1].rooms = 2
    /\ stat_reservations[1].pax = 4

\* The revenue records of the k-th group with a charge code of class `class`.
RevenueOf(k, class) ==
    SelectSeq(GroupOf(k),
              LAMBDA r : r.record_type \in REVENUE_TYPES /\ r.charge_code \in class)

NetSum(records) == SeqSum([i \in 1..Len(records) |-> records[i].revenue_net])

\* C18: each revenue record is counted once: no-show and room-class
\* records add to room revenue (a no-show record also forces NO_SHOW),
\* records of any other charge code add to no field, and
\* revenue_room + revenue_others is the net revenue of the eligible records.
C18_RevenueCountedOnce ==
    \A k \in 1..Len(stat_reservations) :
        /\ stat_reservations[k].revenue_room =
              NetSum(RevenueOf(k, NOSHOW_CHARGE_CODES))
              + NetSum(RevenueOf(k, room_charge_codes \ NOSHOW_CHARGE_CODES))
        /\ stat_reservations[k].revenue_room + stat_reservations[k].revenue_others =
              NetSum(RevenueOf(k, room_charge_codes \cup NOSHOW_CHARGE_CODES))
        /\ RevenueOf(k, NOSHOW_CHARGE_CODES) # <<>> => stat_reservations[k].status = NO_SHOW

C18_Witness ==
    /\ stat_pc = "done"
    /\ Len(stat_reservations) = 1
    /\ Len(GroupOf(1)) = 2
    /\ RevenueOf(1, NOSHOW_CHARGE_CODES) # <<>>
    /\ RevenueOf(1, {"PA"}) # <<>>
    /\ stat_reservations[1].revenue_room = 100
    /\ stat_reservations[1].revenue_others = 0
    /\ stat_reservations[1].status = NO_SHOW

(***************************************************************************)
(* Status translation in the two pipelines                                 *)
(***************************************************************************)

\* The reservation statuses of the Host PMS configuration: ConfigId and
\* code, as listed with map_host_status_to_climber and with STATUS_MAP.
HostStatusCodes ==
    (0 :> "STANDARD") @@ (2 :> "OPTION") @@ (3 :> "WAITLIST") @@ (5 :> "OOO")
    @@ (6 :> "CXL") @@ (7 :> "NOSHOW") @@ (8 :> "OOI") @@ (10 :> "CI") @@ (20 :> "CO")

\* Source statuses: the configured ones and one that no table holds.
ConfigIds == DOMAIN HostStatusCodes \cup {99}

\* The reservation_status_map handed to the price-based pipeline: the whole
\* configuration, a part of it, or nothing.
StatusConfigs == { HostStatusCodes, (0 :> "STANDARD") @@ (7 :> "NOSHOW"), <<>> }

StatusInit ==
    /\ status_args \in {<<[res_status |-> id, is_noshow |-> flag, status_map |-> map]>> :
                           id \in ConfigIds, flag \in BOOLEAN, map \in StatusConfigs}
    /\ status_result = <<>>
    /\ PipelineIdle
    /\ BatchIdle
    /\ StatIdle
    /\ InvoiceIdle
    /\ OrchIdle
    /\ PadraoIdle
    /\ StepIdle

\* The status of one reservation as each pipeline computes it.
TranslateStatus ==
    /\ status_args # <<>>
    /\ status_result = <<>>
    /\ status_result' =
          <<[stat_daily |-> StatStatus(status_args[1].res_status, status_args[1].is_noshow),
             price_based |-> _get_status_code(status_args[1].res_status,
                                              status_args[1].status_map)]>>
    /\ UNCHANGED <<status_args, pipeline_vars, batch_vars, stat_vars, invoice_vars, orch_vars, padrao_vars, step_vars>>

StatusNext == TranslateStatus

StatusSpec == StatusInit /\ [][StatusNext]_vars

\* The table of the claim, by status code.
ClaimedStatus(code) ==
    CASE code = "STANDARD" -> CONFIRMED
      [] code \in {"OPTION", "WAITLIST"} -> TENTATIVE
      [] code \in {"OOO", "CXL", "OOI"} -> CANCELLED
      [] code = "NOSHOW" -> NO_SHOW
      [] code = "CI" -> CHECKED_IN
      [] code = "CO" -> CHECKED_OUT
      [] OTHER -> CONFIRMED

CodeOf(id) == IF id \in DOMAIN HostStatusCodes THEN HostStatusCodes[id] ELSE "?"

\* C19 (as claimed): a no-show flag forces NO_SHOW; otherwise both
\* pipelines translate every source status by the one table of the claim,
\* and so agree with each other.
C19_OneStatusTable ==
    (status_result # <<>> /\ status_args[1].status_map = HostStatusCodes) =>
        /\ status_result[1].stat_daily =
              IF status_args[1].is_noshow THEN NO_SHOW
              ELSE ClaimedStatus(CodeOf(status_args[1].res_status))
        /\ status_result[1].price_based = ClaimedStatus(CodeOf(status_args[1].res_status))
        /\ ~status_args[1].is_noshow =>
              status_result[1].stat_daily = status_result[1].price_based

\* C20: a group whose source status (that of its base record) is CXL is
\* materialized with rooms 0 whatever its occupancy records sum to, and
\* its room and other revenue are still the amounts summed from its
\* revenue records.
C20_CancellationZeroing ==
    \A k \in 1..Len(stat_reservations) :
        BaseRecord(GroupOf(k), room_charge_codes).res_status = 6 =>
            /\ stat_reservations[k].rooms = 0
            /\ stat_reservations[k].revenue_room + stat_reservations[k].revenue_others =
                  NetSum(RevenueOf(k, room_charge_codes \cup NOSHOW_CHARGE_CODES))

C20_Witness ==
    /\ stat_pc = "done"
    /\ Len(stat_reservations) = 1
    /\ Len(OccupancyOf(1)) = 1
    /\ OccupancyOf(1)[1].res_status = 6
    /\ OccupancyOf(1)[1].room_nights > 0
    /\ stat_reservations[1].rooms = 0
    /\ stat_reservations[1].revenue_room = 100
    /\ stat_reservations[1].status = CANCELLED

(***************************************************************************)
(* Segment codes of the emitted records                                    *)
(***************************************************************************)

\* Output field -> field of the StatDaily base record it is taken from.
SegmentSource ==
    [agency_code |-> "agency", channel_code |-> "channel_description",
     company_code |-> "company", cro_code |-> "cro", group_code |-> "groupname",
     rate_code |-> "price_list", segment_code |-> "segment_description",
     sub_segment_code |-> "sub_segment_description"]

\* A source value that is missing, empty or blank.
Blank(value) == ~Truthy(value) \/ Strip(value) = ""

\* C21: every segment code field of every record emitted by the StatDaily
\* materializer is non-empty, and is "UNASSIGNED" when the source value is
\* missing or empty; for the package code the source value is the part of
\* Pack before the separator.
C21_SegmentCodesNeverEmpty ==
    \A k \in 1..Len(stat_reservations) :
        LET r == stat_reservations[k]
            seg == BaseRecord(GroupOf(k), room_charge_codes).segments
        IN  /\ \A f \in DOMAIN SegmentSource :
                  /\ r[f] # ""
                  /\ Blank(seg[SegmentSource[f]]) => r[f] = "UNASSIGNED"
            /\ r.package_code # ""
            /\ (Blank(seg.pack) \/ Blank(FirstPart(seg.pack))) => r.package_code = "UNASSIGNED"

(***************************************************************************)
(* Charge classification                                                   *)
(***************************************************************************)

\* The configuration was supplied and could be read.
ConfigReadable == config_response # <<>> /\ config_response[1].valid

\* The non-empty charge codes the configuration labels ROOM, in any case.
LabelledRoom ==
    IF ConfigReadable
    THEN {c \in {config_response[1].charges[i].code :
                    i \in 1..Len(config_response[1].charges)} :
             /\ c # ""
             /\ \E i \in 1..Len(config_response[1].charges) :
                   /\ config_response[1].charges[i].code = c
                   /\ Upper(config_response[1].charges[i].sales_group) = "ROOM"}
    ELSE {}

\* Every charge code of the configuration, of the records and of the defaults.
ChargeCodes ==
    ROOM_CHARGE_CODES \cup NOSHOW_CHARGE_CODES \cup {"EXTRA", "PA"}

VALID_CHARGE_CODES == {"ALOJ", "NOSHOW", "OB"}

\* str(n) of a non-negative integer, as the sequence of its characters
DigitChar(d) ==
    CASE d = 0 -> "0" [] d = 1 -> "1" [] d = 2 -> "2" [] d = 3 -> "3" [] d = 4 -> "4"
      [] d = 5 -> "5" [] d = 6 -> "6" [] d = 7 -> "7" [] d = 8 -> "8" [] d = 9 -> "9"

RECURSIVE Digits(_)
Digits(n) == IF n < 10 THEN <<DigitChar(n)>> ELSE Digits(n \div 10) \o <<DigitChar(n % 10)>>

\* int(s) of a string of digits
CharDigit(c) == CHOOSE d \in 0..9 : DigitChar(d) = c

RECURSIVE ParseInt(_)
ParseInt(chars) ==
    IF Len(chars) = 1 THEN CharDigit(chars[1])
    ELSE 10 * ParseInt(SubSeq(chars, 1, Len(chars) - 1)) + CharDigit(chars[Len(chars)])

\* The text of a reservation_id_external that the transformers built: its
\* numbers joined by "-".
RECURSIVE IdString(_)
IdString(external) ==
    IF Len(external) = 1 THEN Digits(external[1])
    ELSE IdString(SubSeq(external, 1, Len(external) - 1)) \o <<"-">>
         \o Digits(external[Len(external)])

\* StatDaily records of the invoice pass: revenue of reservation 1-1 under
\* ALOJ on two stay-dates, under OB, NOSHOW and an F&B code, ALOJ revenue
\* of two reservations whose ResNo and GlobalResGuestId spell the same
\* digits, and an occupancy record carrying the ALOJ code.
InvoiceRecord(res_no, global_res_guest_id, record_type, hotel_date, charge_code, revenue_net) ==
    [StatRecord(record_type, 1, 0, hotel_date, 0, 0, charge_code, revenue_net,
                FilledSegments, TRUE)
        EXCEPT !.res_no = res_no, !.global_res_guest_id = global_res_guest_id]

InvoiceRecords ==
    { InvoiceRecord(1, 1, "HISTORY-REVENUE", DateTime(1, 0), "ALOJ", 100),
      InvoiceRecord(1, 1, "HISTORY-REVENUE", DateTime(2, 0), "ALOJ", 100),
      InvoiceRecord(1, 1, "FORECAST-REVENUE", DateTime(1, 0), "OB", 30),
      InvoiceRecord(1, 1, "HISTORY-REVENUE", DateTime(1, 0), "NOSHOW", 50),
      InvoiceRecord(1, 1, "HISTORY-REVENUE", DateTime(1, 0), "PA", 40),
      InvoiceRecord(1, 23, "HISTORY-REVENUE", DateTime(1, 0), "ALOJ", 100),
      InvoiceRecord(12, 3, "HISTORY-REVENUE", DateTime(1, 0), "ALOJ", 70),
      InvoiceRecord(1, 1, "HISTORY-OCCUPANCY", DateTime(1, 1), "ALOJ", 0) }

\* Source lines whose materialized records make up the collection.
InvoiceLine(res_no, global_res_guest_id, master_detail, prices) ==
    [HostLine(1, 1, master_detail, 1, 0, prices, TRUE)
        EXCEPT !.res_no = res_no, !.global_res_guest_id = global_res_guest_id]

\* Records as the two materializers emit them: reservation 1-1 on nights 1
\* and 2, reservation 1-23, a child line of 1-1, and reservation 1-1
\* materialized from StatDaily.
InvoiceReservations ==
    LET status_map == (0 :> "STANDARD") @@ (7 :> "NOSHOW")
        of(line) == Transform(line, status_map, NoTime).records
    IN  { of(InvoiceLine(1, 1, 0, <<PriceItem(1, 0, 0, 106)>>))[1],
          of(InvoiceLine(1, 1, 0, <<PriceItem(1, 0, 0, 106), PriceItem(2, 0, 0, 212)>>))[2],
          of(InvoiceLine(1, 23, 0, <<PriceItem(1, 0, 0, 106)>>))[1],
          of(InvoiceLine(1, 1, 1, <<PriceItem(1, 0, 0, 106)>>))[1],
          _transform_group_to_reservation(
              <<InvoiceRecord(1, 1, "HISTORY-REVENUE", DateTime(1, 0), "ALOJ", 100)>>,
              NoTime, ROOM_CHARGE_CODES) }

\* Key of the grouping in consolidate_stat_daily_records
ConsolidationKey(record) == <<record.res_no, record.res_id, record.charge_code>>

\* StatDailyTransformer.consolidate_stat_daily_records: per key, in order
\* of first appearance, the last record stored under each record type; a
\* key without revenue record yields nothing.
consolidate_stat_daily_records(records) ==
    LET parsed == SelectSeq(records, LAMBDA r : r.valid)
        kept == SelectSeq(parsed, LAMBDA r : r.charge_code \in VALID_CHARGE_CODES)
        keys == DistinctInOrder([i \in 1..Len(kept) |-> ConsolidationKey(kept[i])])
        get(key, record_type) ==
            LET at == {i \in 1..Len(kept) : /\ ConsolidationKey(kept[i]) = key
                                            /\ kept[i].record_type = record_type}
            IN  IF at = {} THEN <<>> ELSE <<kept[SetMax(at)]>>
        either(first, second) == IF first # <<>> THEN first ELSE second
        entry(key) ==
            LET revenue_record == either(get(key, "HISTORY-REVENUE"),
                                         get(key, "FORECAST-REVENUE"))
                occupancy_record == either(get(key, "HISTORY-OCCUPANCY"),
                                           get(key, "FORECAST-OCCUPANCY"))
            IN  IF revenue_record = <<>> THEN <<>>
                ELSE <<[hotel_date |-> IF occupancy_record # <<>>
                                       THEN occupancy_record[1].hotel_date
                                       ELSE revenue_record[1].hotel_date,
                        res_no |-> key[1],
                        res_id |-> key[2],
                        charge_code |-> key[3],
                        global_res_guest_id |-> revenue_record[1].global_res_guest_id,
                        revenue_net |-> revenue_record[1].revenue_net]>>
        F[i \in 0..Len(keys)] == IF i = 0 THEN <<>> ELSE F[i-1] \o entry(keys[i])
    IN  F[Len(keys)]

\* Mutant: the regular key keeps only the stay-date and ResId.
RegularKeyWithoutExternalId(record) ==
    <<_extract_date_string(record.hotel_date), <<>>, record.res_id>>

\* regular_key of aggregate_revenue_by_key: the stay-date, the text
\* f"{res_no}{global_res_guest_id}" and ResId.
RegularKey(record) ==
    <<_extract_date_string(record.hotel_date),
      Digits(record.res_no) \o Digits(record.global_res_guest_id),
      record.res_id>>

\* noshow_key of aggregate_revenue_by_key
NoShowKey(record) == <<_extract_date_string(record.hotel_date), record.res_id>>

\* `if key not in map: map[key] = 0.0` and `map[key] += revenue_net`
AddRevenue(map, key, revenue_net) ==
    IF key \in DOMAIN map THEN [map EXCEPT ![key] = @ + revenue_net]
    ELSE map @@ (key :> revenue_net)

\* StatDailyTransformer.aggregate_revenue_by_key
aggregate_revenue_by_key(consolidated) ==
    LET F[i \in 0..Len(consolidated)] ==
            IF i = 0 THEN [regular |-> <<>>, noshow |-> <<>>]
            ELSE LET record == consolidated[i]
                 IN  IF record.charge_code = "NOSHOW"
                     THEN [F[i-1] EXCEPT !.noshow =
                              AddRevenue(@, NoShowKey(record), record.revenue_net)]
                     ELSE [F[i-1] EXCEPT !.regular =
                              AddRevenue(@, RegularKey(record), record.revenue_net)]
    IN  F[Len(consolidated)]

\* The lookup of update_reservation_invoices for one reservation: the
\* regular map first, then the no-show map; <<>> when neither has the key.
MatchedRevenue(reservation, regular, noshow) ==
    LET calendar_date == reservation.calendar_date
        reservation_id_external == IdString(reservation.reservation_id_external)
        res_id == ParseInt(Digits(reservation.reservation_id))
        regular_key == <<calendar_date, reservation_id_external, res_id>>
        noshow_key == <<calendar_date, res_id>>
    IN  IF regular_key \in DOMAIN regular
        THEN <<[revenue |-> regular[regular_key], match_type |-> "regular"]>>
        ELSE IF noshow_key \in DOMAIN noshow
             THEN <<[revenue |-> noshow[noshow_key], match_type |-> "noshow"]>>
             ELSE <<>>

\* Mutant: a match overwrites revenue_room as well.
UpdatedReservationBothFields(reservation, matched_revenue) ==
    [reservation EXCEPT !.revenue_room_invoice = matched_revenue,
                        !.revenue_room = matched_revenue]

\* `reservation.revenue_room_invoice = matched_revenue`
UpdatedReservation(reservation, matched_revenue) ==
    [reservation EXCEPT !.revenue_room_invoice = matched_revenue]

(***************************************************************************)
(* process_stat_daily_for_reservations as a state machine                  *)
(***************************************************************************)
InvoiceInit ==
    /\ invoice_records \in UNION {[1..n -> InvoiceRecords] : n \in 0..MaxInvoiceRecords}
    /\ reservation_collection \in
          UNION {[1..n -> InvoiceReservations] : n \in 0..MaxInvoiceRecords}
    /\ consolidated_records = <<>>
    /\ regular_revenue_map = <<>>
    /\ noshow_revenue_map = <<>>
    /\ invoice_index = 1
    /\ updated_count = 0
    /\ match_details = <<>>
    /\ invoice_pc = "start"
    /\ PipelineIdle
    /\ BatchIdle
    /\ StatIdle
    /\ StatusIdle
    /\ OrchIdle
    /\ PadraoIdle
    /\ StepIdle

\* Step 1
ConsolidateStatDaily ==
    /\ invoice_pc = "start"
    /\ consolidated_records' = consolidate_stat_daily_records(invoice_records)
    /\ invoice_pc' = "aggregate"
    /\ UNCHANGED <<invoice_records, reservation_collection, regular_revenue_map,
                   noshow_revenue_map, invoice_index, updated_count, match_details,
                   pipeline_vars, batch_vars, stat_vars, status_vars, orch_vars, padrao_vars, step_vars>>

\* Step 2
AggregateRevenue ==
    /\ invoice_pc = "aggregate"
    /\ regular_revenue_map' = aggregate_revenue_by_key(consolidated_records).regular
    /\ noshow_revenue_map' = aggregate_revenue_by_key(consolidated_records).noshow
    /\ invoice_index' = 1
    /\ invoice_pc' = "update"
    /\ UNCHANGED <<invoice_records, reservation_collection, consolidated_records,
                   updated_count, match_details,
                   pipeline_vars, batch_vars, stat_vars, status_vars, orch_vars, padrao_vars, step_vars>>

\* Step 3, one iteration of the loop of update_reservation_invoices
UpdateReservationInvoice ==
    /\ invoice_pc = "update"
    /\ invoice_index <= Len(reservation_collection)
    /\ LET reservation == reservation_collection[invoice_index]
           matched == MatchedRevenue(reservation, regular_revenue_map, noshow_revenue_map)
       IN  IF matched # <<>>
           THEN /\ reservation_collection' =
                      [reservation_collection EXCEPT
                          ![invoice_index] = UpdatedReservation(reservation, matched[1].revenue)]
                /\ updated_count' = updated_count + 1
                /\ match_details' =
                      Append(match_details,
                             [calendar_date |-> reservation.calendar_date,
                              reservation_id |-> reservation.reservation_id,
                              reservation_id_external |-> reservation.reservation_id_external,
                              old_revenue_room_invoice |-> reservation.revenue_room_invoice,
                              new_revenue_room_invoice |-> matched[1].revenue,
                              match_type |-> matched[1].match_type])
           ELSE UNCHANGED <<reservation_collection, updated_count, match_details>>
    /\ invoice_index' = invoice_index + 1
    /\ UNCHANGED <<invoice_records, consolidated_records, regular_revenue_map,
                   noshow_revenue_map, invoice_pc,
                   pipeline_vars, batch_vars, stat_vars, status_vars, orch_vars, padrao_vars, step_vars>>

\* The loop is exhausted: the collection and the statistics are returned.
ReturnUpdatedCollection ==
    /\ invoice_pc = "update"
    /\ invoice_index > Len(reservation_collection)
    /\ invoice_pc' = "done"
    /\ UNCHANGED <<invoice_records, reservation_collection, consolidated_records,
                   regular_revenue_map, noshow_revenue_map, invoice_index,
                   updated_count, match_details,
                   pipeline_vars, batch_vars, stat_vars, status_vars, orch_vars, padrao_vars, step_vars>>

InvoiceNext ==
    \/ ConsolidateStatDaily
    \/ AggregateRevenue
    \/ UpdateReservationInvoice
    \/ ReturnUpdatedCollection

InvoiceSpec == InvoiceInit /\ [][InvoiceNext]_vars

(***************************************************************************)
(* Properties of the invoice-correction pass                               *)
(***************************************************************************)

\* C23: no step of the invoice-correction pass adds, removes or reorders a
\* record of the collection; a step changes no field other than
\* revenue_room_invoice, and changes nothing in a record that neither
\* revenue map matches.
C23_OnlyInvoiceFieldChanges ==
    [][ /\ Len(reservation_collection') = Len(reservation_collection)
        /\ \A i \in 1..Len(reservation_collection) :
              /\ [reservation_collection'[i] EXCEPT !.revenue_room_invoice =
                     reservation_collection[i].revenue_room_invoice]
                 = reservation_collection[i]
              /\ MatchedRevenue(reservation_collection[i], regular_revenue_map',
                                noshow_revenue_map') = <<>>
                 => reservation_collection'[i] = reservation_collection[i]
      ]_vars

C23_Witness ==
    /\ invoice_pc = "done"
    /\ Len(reservation_collection) = 2
    /\ updated_count = 1
    /\ match_details[1].old_revenue_room_invoice = 100
    /\ match_details[1].new_revenue_room_invoice = 50
    /\ reservation_collection[1].revenue_room_invoice = 50
    /\ reservation_collection[1].revenue_room = 100
    /\ reservation_collection[2].calendar_date = 2
    /\ reservation_collection[2].revenue_room_invoice = 200

\* The revenue records of the input with one of the charge codes `codes`.
RevenueInput(codes) ==
    SelectSeq(invoice_records,
              LAMBDA r : r.valid /\ r.record_type \in REVENUE_TYPES /\ r.charge_code \in codes)

\* Net revenue of the records of `records` that `key_of` maps to `key`.
KeySum(records, key_of(_), key) ==
    SeqSum([i \in 1..Len(records) |->
               IF key_of(records[i]) = key THEN records[i].revenue_net ELSE 0])

\* C24: once the maps are built, the regular map holds for the key of every
\* ALOJ/OB revenue record of the input the sum of the net revenue of all
\* such records with that key, and the no-show map does so for the NOSHOW
\* revenue records; every stay-date of a reservation has its own entry.
\* Stated for inputs that repeat no record and hold no occupancy record
\* under one of these charge codes, whose date would replace that of the
\* revenue record.
C24_RevenueSummedPerKey ==
    (/\ invoice_pc \in {"update", "done"}
     /\ \A i, j \in 1..Len(invoice_records) :
           invoice_records[i] = invoice_records[j] => i = j
     /\ \A i \in 1..Len(invoice_records) :
           invoice_records[i].charge_code \in VALID_CHARGE_CODES
           => invoice_records[i].record_type \in REVENUE_TYPES) =>
        /\ \A i \in 1..Len(RevenueInput({"ALOJ", "OB"})) :
              LET key == RegularKey(RevenueInput({"ALOJ", "OB"})[i])
              IN  /\ key \in DOMAIN regular_revenue_map
                  /\ regular_revenue_map[key] =
                        KeySum(RevenueInput({"ALOJ", "OB"}), RegularKey, key)
        /\ \A i \in 1..Len(RevenueInput({"NOSHOW"})) :
              LET key == NoShowKey(RevenueInput({"NOSHOW"})[i])
              IN  /\ key \in DOMAIN noshow_revenue_map
                  /\ noshow_revenue_map[key] =
                        KeySum(RevenueInput({"NOSHOW"}), NoShowKey, key)

\* The consolidated records under a regular charge code.
RegularConsolidated == SelectSeq(consolidated_records, LAMBDA r : r.charge_code # "NOSHOW")

\* The four values the test of aggregate_revenue_by_key expects as the key.
FourPartKey(record) ==
    <<_extract_date_string(record.hotel_date), record.res_no,
      record.global_res_guest_id, record.res_id>>

\* C25: the entry of a regular consolidated record holds the revenue of
\* exactly the regular records that agree with it on stay-date, ResNo,
\* GlobalResGuestId and ResId; records that differ in ResNo or
\* GlobalResGuestId are never summed into one entry.
C25_RegularKeySeparatesReservations ==
    invoice_pc \in {"update", "done"} =>
        \A i \in 1..Len(RegularConsolidated) :
            regular_revenue_map[RegularKey(RegularConsolidated[i])] =
                KeySum(RegularConsolidated, FourPartKey, FourPartKey(RegularConsolidated[i]))

\* C27: when the pass has returned, every record of the collection that was
\* materialized from a line with MasterDetail = 0 and has a regular
\* consolidated record of its ResNo, GlobalResGuestId, ResId and stay-date
\* was matched as "regular" and carries the aggregated amount of that
\* record's key as revenue_room_invoice.
C27_RegularMatchFound ==
    invoice_pc = "done" =>
        \A i \in 1..Len(reservation_collection) :
            \A k \in 1..Len(RegularConsolidated) :
                LET reservation == reservation_collection[i]
                    external == reservation.reservation_id_external
                    record == RegularConsolidated[k]
                IN  (/\ Len(external) = 2
                     /\ FourPartKey(record) = <<reservation.calendar_date, external[1],
                                                 external[2], reservation.reservation_id>>)
                    => /\ reservation.revenue_room_invoice =
                             regular_revenue_map[RegularKey(record)]
                       /\ \E d \in 1..Len(match_details) :
                             /\ match_details[d].match_type = "regular"
                             /\ match_details[d].reservation_id_external = external
                             /\ match_details[d].calendar_date = reservation.calendar_date

(***************************************************************************)
(* HostPMSConnectorOrchestrator.process_hotel                              *)
(* (services/orchestration_service.py)                                     *)
(***************************************************************************)

\* The collaborator calls of each stage, in program order.
PARAMETER_CALLS == <<"esb.get_hotel_parameters">>
CONFIG_CALLS ==
    <<"host.get_hotel_config", "s3.upload_raw hotel-configs", "ConfigTransformer.transform",
      "s3.upload_processed hotel-configs", "esb.register_file config">>
INVENTORY_CALLS ==
    <<"ConfigTransformer.get_room_inventory", "s3.upload_processed inventory",
      "esb.register_file inventory">>
SEGMENT_CALLS == <<"s3.upload_processed segments", "esb.register_file segments">>
RESERVATION_CALLS ==
    <<"host.get_reservations", "s3.upload_raw reservations",
      "ReservationTransformer.transform_batch", "s3.upload_processed reservations",
      "esb.register_file reservation">>
STAT_DAILY_CALLS ==
    <<"s3.upload_raw stat-daily", "StatDailyTransformer.process_stat_daily_for_reservations",
      "s3.upload_processed reservations", "esb.register_file reservation">>
IMPORT_DATE_CALLS == <<"esb.update_import_date">>

\* The calls made when the fail_at-th call of `calls` raises (the raising
\* call included); fail_at = 0: none raises and all are made.
CallsMade(calls, fail_at) ==
    IF fail_at = 0 THEN calls ELSE SubSeq(calls, 1, fail_at)

\* An entry of the result dictionary: None, or the keys of the stage's files.
NoSection == [present |-> FALSE, key |-> None, invoice_updates |-> None]
Section(key) == [present |-> TRUE, key |-> key, invoice_updates |-> None]

AddError(res, message) == [res EXCEPT !.errors = Append(@, message)]

AddMessage(res, file_type, file_key) ==
    [res EXCEPT !.sqs_messages =
        Append(@, [file_type |-> file_type, file_key |-> file_key, sqs_message_id |-> None])]

\* Mutant: the outer handler lets the exception out.
OuterHandlerReraises(res) ==
    [pc |-> "raised", results |-> res]

\* The outer `except Exception` of process_hotel: the error is recorded and
\* the result dictionary returned.
OuterHandler(res) ==
    [pc |-> "returned", results |-> AddError(res, "Unexpected error")]

OrchInit ==
    /\ results = [success |-> FALSE, config |-> NoSection, segments |-> NoSection,
                  reservations |-> NoSection, inventory |-> NoSection,
                  revenue |-> NoSection, stat_daily |-> NoSection, errors |-> <<>>, sqs_messages |-> <<>>]
    /\ orch_locals = [config_response |-> FALSE, segments_collection |-> None,
                      reservations_collection |-> None]
    /\ orch_calls = <<>>
    /\ orch_pc = "parameters"
    /\ PipelineIdle
    /\ BatchIdle
    /\ StatIdle
    /\ StatusIdle
    /\ InvoiceIdle
    /\ PadraoIdle
    /\ StepIdle

\* Step 1: a failure is recorded and re-raised as OrchestrationError, which
\* the outer handler receives.
FetchParameters ==
    /\ orch_pc = "parameters"
    /\ \E fail_at \in 0..Len(PARAMETER_CALLS) :
          /\ orch_calls' = orch_calls \o CallsMade(PARAMETER_CALLS, fail_at)
          /\ IF fail_at = 0
             THEN /\ orch_pc' = "config"
                  /\ UNCHANGED results
             ELSE LET handled == OuterHandler(
                                    AddError(results, "Failed to fetch import parameters"))
                  IN  /\ orch_pc' = handled.pc
                      /\ results' = handled.results
    /\ UNCHANGED <<orch_locals, pipeline_vars, batch_vars, stat_vars, status_vars,
                   invoice_vars, padrao_vars, step_vars>>

\* Step 2
ProcessHotelConfig ==
    /\ orch_pc = "config"
    /\ \E fail_at \in 0..Len(CONFIG_CALLS) :
          /\ orch_calls' = orch_calls \o CallsMade(CONFIG_CALLS, fail_at)
          /\ IF fail_at = 0
             THEN /\ results' = AddMessage([results EXCEPT !.config =
                                               Section("hotel-configs.1")],
                                           "config", "hotel-configs.1")
                  /\ orch_locals' = [orch_locals EXCEPT !.config_response = TRUE,
                                                        !.segments_collection = "segments"]
             ELSE /\ results' = AddError(results, "Failed to process config")
                  /\ orch_locals' = [orch_locals EXCEPT !.config_response = fail_at > 1,
                                                        !.segments_collection = None]
    /\ orch_pc' = "inventory"
    /\ UNCHANGED <<pipeline_vars, batch_vars, stat_vars, status_vars, invoice_vars, padrao_vars, step_vars>>

\* Step 3: config_response is unbound when get_hotel_config raised, and the
\* NameError is handled like any failure of the stage.
ProcessRoomInventory ==
    /\ orch_pc = "inventory"
    /\ IF ~orch_locals.config_response
       THEN /\ results' = AddError(results, "Failed to extract room inventory")
            /\ UNCHANGED orch_calls
       ELSE \E fail_at \in 0..Len(INVENTORY_CALLS) :
               /\ orch_calls' = orch_calls \o CallsMade(INVENTORY_CALLS, fail_at)
               /\ results' =
                     IF fail_at = 0
                     THEN AddMessage([results EXCEPT !.inventory =
                                         Section("inventory.1")],
                                     "inventory", "inventory.1")
                     ELSE AddError(results, "Failed to extract room inventory")
    /\ orch_pc' = "segments"
    /\ UNCHANGED <<orch_locals, pipeline_vars, batch_vars, stat_vars, status_vars,
                   invoice_vars, padrao_vars, step_vars>>

\* Step 4, skipped when the config stage left no segments collection
ProcessHotelSegments ==
    /\ orch_pc = "segments"
    /\ IF orch_locals.segments_collection = None
       THEN UNCHANGED <<results, orch_calls>>
       ELSE \E fail_at \in 0..Len(SEGMENT_CALLS) :
               /\ orch_calls' = orch_calls \o CallsMade(SEGMENT_CALLS, fail_at)
               /\ results' =
                     IF fail_at = 0
                     THEN AddMessage([results EXCEPT !.segments =
                                         Section("segments.1")],
                                     "segments", "segments.1")
                     ELSE AddError(results, "Failed to process segments")
    /\ orch_pc' = "reservations"
    /\ UNCHANGED <<orch_locals, pipeline_vars, batch_vars, stat_vars, status_vars,
                   invoice_vars, padrao_vars, step_vars>>

\* Step 5: reservations_collection is bound once transform_batch returned,
\* to an empty or a non-empty collection.
ProcessHotelReservations ==
    /\ orch_pc = "reservations"
    /\ \E fail_at \in 0..Len(RESERVATION_CALLS), collection \in {"empty", "nonempty"} :
          /\ orch_calls' = orch_calls \o CallsMade(RESERVATION_CALLS, fail_at)
          /\ orch_locals' = [orch_locals EXCEPT !.reservations_collection =
                                IF fail_at \in {1, 2, 3} THEN None ELSE collection]
          /\ results' =
                IF fail_at = 0
                THEN AddMessage([results EXCEPT !.reservations =
                                    Section("reservations.1")],
                                "reservations", "reservations.1")
                ELSE AddError(results, "Failed to process reservations")
    /\ orch_pc' = "stat_daily"
    /\ UNCHANGED <<pipeline_vars, batch_vars, stat_vars, status_vars, invoice_vars, padrao_vars, step_vars>>

\* Step 5.5: the per-date fetches tolerate their own failures; with records
\* fetched the raw data is uploaded and, for a non-empty collection, the
\* invoices are corrected and the reservations file is published again.  A
\* failure is logged and not added to the errors.
ProcessHotelStatDaily ==
    /\ orch_pc = "stat_daily"
    /\ \E fetched \in BOOLEAN :
          IF ~fetched
          THEN /\ orch_calls' = Append(orch_calls, "host.get_stat_daily")
               /\ UNCHANGED results
          ELSE LET update == orch_locals.reservations_collection = "nonempty"
                   calls == IF update THEN STAT_DAILY_CALLS ELSE SubSeq(STAT_DAILY_CALLS, 1, 1)
               IN  \E fail_at \in 0..Len(calls) :
                      /\ orch_calls' = Append(orch_calls, "host.get_stat_daily")
                                       \o CallsMade(calls, fail_at)
                      /\ results' =
                            IF fail_at # 0 THEN results
                            ELSE IF ~update
                            THEN [results EXCEPT !.stat_daily = Section("stat-daily.1")]
                            ELSE IF ~results.reservations.present
                            THEN results
                            ELSE [results EXCEPT
                                     !.reservations.key = "reservations.2",
                                     !.reservations.invoice_updates = "updated_reservations",
                                     !.sqs_messages =
                                         [i \in 1..Len(@) |->
                                             IF @[i].file_type = "reservations"
                                             THEN [@[i] EXCEPT !.file_key = "reservations.2"]
                                             ELSE @[i]],
                                     !.stat_daily = Section("stat-daily.1")]
    /\ orch_pc' = "import_date"
    /\ UNCHANGED <<orch_locals, pipeline_vars, batch_vars, stat_vars, status_vars,
                   invoice_vars, padrao_vars, step_vars>>

\* Step 6
UpdateImportDate ==
    /\ orch_pc = "import_date"
    /\ \E fail_at \in 0..Len(IMPORT_DATE_CALLS) :
          /\ orch_calls' = orch_calls \o CallsMade(IMPORT_DATE_CALLS, fail_at)
          /\ results' = IF fail_at = 0 THEN results
                        ELSE AddError(results, "Failed to update import date")
    /\ orch_pc' = "sqs"
    /\ UNCHANGED <<orch_locals, pipeline_vars, batch_vars, stat_vars, status_vars,
                   invoice_vars, padrao_vars, step_vars>>

\* Step 7 and the return: the messages are sent in order until one send
\* raises; success is whether the error list is empty.
SendSqsMessages ==
    /\ orch_pc = "sqs"
    /\ \E fail_at \in 0..Len(results.sqs_messages) :
          LET made == IF fail_at = 0 THEN Len(results.sqs_messages) ELSE fail_at
              sent == IF fail_at = 0 THEN Len(results.sqs_messages) ELSE fail_at - 1
              with_ids == [results EXCEPT !.sqs_messages =
                              [i \in 1..Len(@) |->
                                  IF i <= sent THEN [@[i] EXCEPT !.sqs_message_id = "message_id"]
                                  ELSE @[i]]]
              final == IF fail_at = 0 THEN with_ids
                       ELSE AddError(with_ids, "Failed to send SQS messages")
          IN  /\ orch_calls' = orch_calls \o [i \in 1..made |-> "sqs.send_message"]
              /\ results' = [final EXCEPT !.success = (final.errors = <<>>)]
    /\ orch_pc' = "returned"
    /\ UNCHANGED <<orch_locals, pipeline_vars, batch_vars, stat_vars, status_vars,
                   invoice_vars, padrao_vars, step_vars>>

OrchNext ==
    \/ FetchParameters
    \/ ProcessHotelConfig
    \/ ProcessRoomInventory
    \/ ProcessHotelSegments
    \/ ProcessHotelReservations
    \/ ProcessHotelStatDaily
    \/ UpdateImportDate
    \/ SendSqsMessages

OrchSpec == OrchInit /\ [][OrchNext]_vars

(***************************************************************************)
(* Properties of process_hotel                                             *)
(***************************************************************************)
ParametersFailed ==
    \E i \in 1..Len(results.errors) : results.errors[i] = "Failed to fetch import parameters"

PublishedFileType(step) ==
    CASE step.kind = "ProcessConfig" -> "config"
      [] step.kind = "ProcessInventory" -> "inventory"
      [] step.kind = "ProcessSegments" -> "segments"
      [] step.kind = "ProcessStatDaily" -> "reservations"
      [] OTHER -> None

\* The runs of publishing steps in which the upload and the registration
\* of the processed file both returned.
RegisteredRuns ==
    {e \in 1..Len(executed) :
        /\ PublishedFileType(steps[executed[e].index]) # None
        /\ executed[e].outcome = "ok"
        /\ executed[e].success}

\* C28: every pending notification carries the key of an upload recorded in
\* context.s3_uploads, for a file type whose step uploaded and registered
\* the file; there are exactly as many notifications as step runs in which
\* upload and registration succeeded, so a failed upload or registration
\* leaves none.
C28_NotificationOnlyAfterRegistration ==
    /\ \A i \in 1..Len(context.sqs_messages) :
          /\ \E d \in DOMAIN context.s3_uploads :
                context.s3_uploads[d].key = context.sqs_messages[i].file_key
          /\ \E e \in RegisteredRuns :
                PublishedFileType(steps[executed[e].index]) = context.sqs_messages[i].file_type
    /\ Len(context.sqs_messages) = Cardinality(RegisteredRuns)

C28_Witness ==
    /\ pipeline_pc = "returned"
    /\ Len(context.sqs_messages) = 2
    /\ \E e \in 1..Len(executed) : executed[e].outcome = "register_fail"
    /\ \E i \in 1..Len(context.sqs_messages) :
          context.sqs_messages[i].file_type = "reservations"

(***************************************************************************)
(* ClimberPadraoOrchestrator.run                                           *)
(***************************************************************************)

\* The dictionary run returns; "timestamp" is the same in every return after
\* the first and is left out.
PadraoSummary(success, error, reservations_count, segments_uploaded, message) ==
    [success |-> success, error |-> error, reservations_count |-> reservations_count,
     segments_uploaded |-> segments_uploaded, message |-> message]

\* A collaborator call returns ("ok"), raises the exception type the handler
\* around it names ("declared"), or raises another exception ("other").
PadraoOutcomes == {"ok", "declared", "other"}

\* The call is appended to the history; when it raised, its position is
\* appended to the failures.
PadraoCall(calls, name) == Append(calls, name)

PadraoFailure(failed, calls, name, outcome) ==
    IF outcome = "ok" THEN failed ELSE Append(failed, Len(calls) + 1)

\* SegmentCollection is a pydantic model without __bool__ or __len__, so
\* "not segments_collection" is False for every collection transform returns.
SegmentsFalsy == FALSE

PadraoInit ==
    /\ \E end_date \in 1..MaxPadraoDates :
          padrao_locals = [end_date |-> end_date, current_date |-> 1,
                           all_stat_daily |-> 0, reservations |-> 0,
                           segments_uploaded |-> FALSE]
    /\ padrao_calls = <<>>
    /\ padrao_failed = <<>>
    /\ padrao_summary = <<>>
    /\ padrao_pc = "validate"
    /\ PipelineIdle
    /\ BatchIdle
    /\ StatIdle
    /\ StatusIdle
    /\ InvoiceIdle
    /\ OrchIdle
    /\ StepIdle

\* settings.validate_climber_padrao(): a non-empty list ends the run.
ValidateSettings ==
    /\ padrao_pc = "validate"
    /\ \E missing \in BOOLEAN :
          IF missing
          THEN /\ padrao_summary' = <<PadraoSummary(FALSE, "Missing config", 0, FALSE, "")>>
               /\ padrao_pc' = "returned"
          ELSE /\ padrao_pc' = "config"
               /\ UNCHANGED padrao_summary
    /\ UNCHANGED <<padrao_locals, padrao_calls, padrao_failed>>
    /\ UNCHANGED <<pipeline_vars, batch_vars, stat_vars, status_vars, invoice_vars, orch_vars, step_vars>>

\* 2. Download: get_hotel_config under "except Exception".
DownloadConfig ==
    /\ padrao_pc = "config"
    /\ \E outcome \in {"ok", "declared"} :
          /\ padrao_calls' = PadraoCall(padrao_calls, "get_hotel_config")
          /\ padrao_failed' = PadraoFailure(padrao_failed, padrao_calls,
                                            "get_hotel_config", outcome)
          /\ IF outcome = "ok"
             THEN /\ padrao_pc' = "stat_daily"
                  /\ UNCHANGED padrao_summary
             ELSE /\ padrao_summary' = <<PadraoSummary(FALSE, "Download config", 0, FALSE, "")>>
                  /\ padrao_pc' = "returned"
    /\ UNCHANGED padrao_locals
    /\ UNCHANGED <<pipeline_vars, batch_vars, stat_vars, status_vars, invoice_vars, orch_vars, step_vars>>

\* One turn of the loop over the dates: get_stat_daily under "except
\* Exception", which logs a warning and goes on to the next date.  After the
\* last date an empty all_stat_daily ends the run with success True.
DownloadStatDaily ==
    /\ padrao_pc = "stat_daily"
    /\ \E outcome \in {"ok", "declared"}, fetched \in 0..MaxFetched :
          LET all_stat_daily == IF outcome = "ok"
                                THEN padrao_locals.all_stat_daily + fetched
                                ELSE padrao_locals.all_stat_daily
              current_date == padrao_locals.current_date + 1
          IN  /\ outcome = "declared" => fetched = 0
              /\ padrao_calls' = PadraoCall(padrao_calls, "get_stat_daily")
              /\ padrao_failed' = PadraoFailure(padrao_failed, padrao_calls,
                                                "get_stat_daily", outcome)
              /\ padrao_locals' = [padrao_locals EXCEPT !.all_stat_daily = all_stat_daily,
                                                        !.current_date = current_date]
              /\ IF current_date <= padrao_locals.end_date
                 THEN /\ padrao_pc' = "stat_daily"
                      /\ UNCHANGED padrao_summary
                 ELSE IF all_stat_daily = 0
                 THEN /\ padrao_summary' =
                            <<PadraoSummary(TRUE, "", 0, FALSE, "No data to process")>>
                      /\ padrao_pc' = "returned"
                 ELSE /\ padrao_pc' = "raw_upload"
                      /\ UNCHANGED padrao_summary
    /\ UNCHANGED <<pipeline_vars, batch_vars, stat_vars, status_vars, invoice_vars, orch_vars, step_vars>>

\* 3. Raw S3: only S3UploadError is handled.
UploadRawReservations ==
    /\ padrao_pc = "raw_upload"
    /\ \E outcome \in PadraoOutcomes :
          /\ padrao_calls' = PadraoCall(padrao_calls, "upload_raw_reservations")
          /\ padrao_failed' = PadraoFailure(padrao_failed, padrao_calls,
                                            "upload_raw_reservations", outcome)
          /\ CASE outcome = "ok" ->
                    /\ padrao_pc' = "transform"
                    /\ UNCHANGED padrao_summary
               [] outcome = "declared" ->
                    /\ padrao_summary' = <<PadraoSummary(FALSE, "Upload raw", 0, FALSE, "")>>
                    /\ padrao_pc' = "returned"
               [] outcome = "other" ->
                    /\ padrao_pc' = "raised"
                    /\ UNCHANGED padrao_summary
    /\ UNCHANGED padrao_locals
    /\ UNCHANGED <<pipeline_vars, batch_vars, stat_vars, status_vars, invoice_vars, orch_vars, step_vars>>

\* 4. Transform: transform_batch keeps the groups it could transform;
\* ConfigTransformer.transform raises ValueError on a configuration it
\* cannot parse, and no handler surrounds the call.
TransformPadrao ==
    /\ padrao_pc = "transform"
    /\ \E reservations \in 0..padrao_locals.all_stat_daily, outcome \in {"ok", "other"} :
          /\ padrao_calls' = padrao_calls \o <<"transform_batch", "ConfigTransformer.transform">>
          /\ padrao_failed' = PadraoFailure(padrao_failed, Append(padrao_calls, "transform_batch"),
                                            "ConfigTransformer.transform", outcome)
          /\ IF outcome = "other"
             THEN /\ padrao_pc' = "raised"
                  /\ UNCHANGED <<padrao_summary, padrao_locals>>
             ELSE /\ padrao_locals' = [padrao_locals EXCEPT !.reservations = reservations]
                  /\ IF reservations = 0 /\ SegmentsFalsy
                     THEN /\ padrao_summary' =
                                <<PadraoSummary(TRUE, "", 0, FALSE, "No reservations or segments")>>
                          /\ padrao_pc' = "returned"
                     ELSE /\ padrao_pc' = "upload_reservations"
                          /\ UNCHANGED padrao_summary
    /\ UNCHANGED <<pipeline_vars, batch_vars, stat_vars, status_vars, invoice_vars, orch_vars, step_vars>>

\* 5. Upload reservations: only S3UploadError is handled.
UploadReservations ==
    /\ padrao_pc = "upload_reservations"
    /\ \E outcome \in PadraoOutcomes :
          /\ padrao_calls' = PadraoCall(padrao_calls, "upload_reservations")
          /\ padrao_failed' = PadraoFailure(padrao_failed, padrao_calls,
                                            "upload_reservations", outcome)
          /\ CASE outcome = "ok" ->
                    /\ padrao_pc' = "upload_segments"
                    /\ UNCHANGED padrao_summary
               [] outcome = "declared" ->
                    /\ padrao_summary' = <<PadraoSummary(FALSE, "Upload reservations",
                                                         padrao_locals.reservations, FALSE, "")>>
                    /\ padrao_pc' = "returned"
               [] outcome = "other" ->
                    /\ padrao_pc' = "raised"
                    /\ UNCHANGED padrao_summary
    /\ UNCHANGED padrao_locals
    /\ UNCHANGED <<pipeline_vars, batch_vars, stat_vars, status_vars, invoice_vars, orch_vars, step_vars>>

\* 6. Upload segments: only S3UploadError is handled.
UploadSegments ==
    /\ padrao_pc = "upload_segments"
    /\ \E outcome \in PadraoOutcomes :
          /\ padrao_calls' = PadraoCall(padrao_calls, "upload_segments")
          /\ padrao_failed' = PadraoFailure(padrao_failed, padrao_calls,
                                            "upload_segments", outcome)
          /\ CASE outcome = "ok" ->
                    /\ padrao_locals' = [padrao_locals EXCEPT !.segments_uploaded = TRUE]
                    /\ padrao_pc' = "register"
                    /\ UNCHANGED padrao_summary
               [] outcome = "declared" ->
                    /\ padrao_summary' = <<PadraoSummary(FALSE, "Upload segments",
                                                         padrao_locals.reservations, FALSE, "")>>
                    /\ padrao_pc' = "returned"
                    /\ UNCHANGED padrao_locals
               [] outcome = "other" ->
                    /\ padrao_pc' = "raised"
                    /\ UNCHANGED <<padrao_summary, padrao_locals>>
    /\ UNCHANGED <<pipeline_vars, batch_vars, stat_vars, status_vars, invoice_vars, orch_vars, step_vars>>

\* 7. ESB: register_reservation_file, then register_segment_file, in one try
\* that handles only ESBPadraoError.  fail_at is the call that raised, 0 for
\* none.
PADRAO_REGISTER_CALLS == <<"register_reservation_file", "register_segment_file">>

RegisterFiles ==
    /\ padrao_pc = "register"
    /\ \E fail_at \in 0..Len(PADRAO_REGISTER_CALLS), outcome \in PadraoOutcomes :
          /\ (fail_at = 0) <=> (outcome = "ok")
          /\ padrao_calls' = padrao_calls \o CallsMade(PADRAO_REGISTER_CALLS, fail_at)
          /\ padrao_failed' = IF fail_at = 0 THEN padrao_failed
                              ELSE Append(padrao_failed, Len(padrao_calls) + fail_at)
          /\ CASE outcome = "ok" ->
                    /\ padrao_pc' = "sqs"
                    /\ UNCHANGED padrao_summary
               [] outcome = "declared" ->
                    /\ padrao_summary' = <<PadraoSummary(FALSE, "ESB", padrao_locals.reservations,
                                                         padrao_locals.segments_uploaded, "")>>
                    /\ padrao_pc' = "returned"
               [] outcome = "other" ->
                    /\ padrao_pc' = "raised"
                    /\ UNCHANGED padrao_summary
    /\ UNCHANGED padrao_locals
    /\ UNCHANGED <<pipeline_vars, batch_vars, stat_vars, status_vars, invoice_vars, orch_vars, step_vars>>

\* 8. SQS: only SQSError is handled; the final return follows.
SendProcessorMessage ==
    /\ padrao_pc = "sqs"
    /\ \E outcome \in PadraoOutcomes :
          /\ padrao_calls' = PadraoCall(padrao_calls, "send_processor_message")
          /\ padrao_failed' = PadraoFailure(padrao_failed, padrao_calls,
                                            "send_processor_message", outcome)
          /\ CASE outcome = "ok" ->
                    /\ padrao_summary' = <<PadraoSummary(TRUE, "", padrao_locals.reservations,
                                                         padrao_locals.segments_uploaded, "")>>
                    /\ padrao_pc' = "returned"
               [] outcome = "declared" ->
                    /\ padrao_summary' = <<PadraoSummary(FALSE, "SQS", padrao_locals.reservations,
                                                         padrao_locals.segments_uploaded, "")>>
                    /\ padrao_pc' = "returned"
               [] outcome = "other" ->
                    /\ padrao_pc' = "raised"
                    /\ UNCHANGED padrao_summary
    /\ UNCHANGED padrao_locals
    /\ UNCHANGED <<pipeline_vars, batch_vars, stat_vars, status_vars, invoice_vars, orch_vars, step_vars>>

PadraoNext ==
    \/ ValidateSettings
    \/ DownloadConfig
    \/ DownloadStatDaily
    \/ UploadRawReservations
    \/ TransformPadrao
    \/ UploadReservations
    \/ UploadSegments
    \/ RegisterFiles
    \/ SendProcessorMessage

PadraoSpec == PadraoInit /\ [][PadraoNext]_vars

(***************************************************************************)
(* Properties of ClimberPadraoOrchestrator.run                             *)
(***************************************************************************)

\* Position of a call in the order of the stages.
StageRank(name) ==
    CASE name = "get_hotel_config" -> 1
      [] name = "get_stat_daily" -> 2
      [] name = "upload_raw_reservations" -> 3
      [] name \in {"transform_batch", "ConfigTransformer.transform"} -> 4
      [] name = "upload_reservations" -> 5
      [] name = "upload_segments" -> 6
      [] name = "register_reservation_file" -> 7
      [] name = "register_segment_file" -> 8
      [] name = "send_processor_message" -> 9

PadraoSucceeded(name) ==
    \E i \in 1..Len(padrao_calls) :
        /\ padrao_calls[i] = name
        /\ \A k \in 1..Len(padrao_failed) : padrao_failed[k] # i

StagesInOrder ==
    \A i, j \in 1..Len(padrao_calls) :
        i < j => StageRank(padrao_calls[i]) <= StageRank(padrao_calls[j])

NoCallAfterFailure ==
    \A k \in 1..Len(padrao_failed) : padrao_failed[k] = Len(padrao_calls)

NotificationAfterUploadsAndRegistrations ==
    (\E i \in 1..Len(padrao_calls) : padrao_calls[i] = "send_processor_message")
        => /\ PadraoSucceeded("upload_reservations")
           /\ PadraoSucceeded("upload_segments")
           /\ PadraoSucceeded("register_reservation_file")
           /\ PadraoSucceeded("register_segment_file")

FailureReturnsUnsuccessfulSummary ==
    (padrao_failed # <<>> /\ padrao_pc \in {"returned", "raised"})
        => /\ padrao_summary # <<>>
           /\ ~padrao_summary[1].success

\* C29: the stages run in the fixed order; no stage is invoked after a stage
\* failed, so the queue notification follows two successful uploads and two
\* successful registrations; and a run in which a stage failed returns a
\* summary with success = False.
C29_StagesInOrderStopOnFailure ==
    /\ StagesInOrder
    /\ NoCallAfterFailure
    /\ NotificationAfterUploadsAndRegistrations
    /\ FailureReturnsUnsuccessfulSummary

(***************************************************************************)
(* ProcessStatDailyStep.execute: the conversion of the fetched records     *)
(***************************************************************************)

\* The step is reached with fetched records (it returns before when there
\* are none) and with the context as the earlier steps left it:
\* config_response is None or the configuration ProcessConfig stored, whose
\* hotel_info carries the hotel's local time.
StepStatInit ==
    /\ stat_daily_records \in UNION {[1..n -> StatRecords] : n \in 1..MaxStatRecords}
    /\ \E config \in ConfigResponses, local_time \in StatLocalTimes :
          /\ config = <<>> => local_time = NoTime
          /\ step_context = [config_response |-> config, local_time |-> local_time]
    /\ config_response = <<>>
    /\ stat_local_time = NoTime
    /\ room_charge_codes = {}
    /\ parsed_records = <<>>
    /\ stat_groups = <<>>
    /\ stat_group_index = 1
    /\ stat_reservations = <<>>
    /\ stat_failed_count = 0
    /\ stat_pc = "call"
    /\ PipelineIdle
    /\ BatchIdle
    /\ StatusIdle
    /\ InvoiceIdle
    /\ OrchIdle
    /\ PadraoIdle

\* hotel_local_time is read from the context's configuration under
\* try/except; a configuration that does not validate leaves it None.
StepHotelLocalTime(ctx) ==
    IF ctx.config_response = <<>> THEN NoTime
    ELSE IF ~ctx.config_response[1].valid THEN NoTime
    ELSE ctx.local_time

\* transform_batch(all_stat_daily_records, hotel_code=..., hotel_local_time=...):
\* no config_response argument is passed, so the parameter keeps its default
\* None.
CallTransformBatch ==
    /\ stat_pc = "call"
    /\ stat_local_time' = StepHotelLocalTime(step_context)
    /\ config_response' = <<>>
    /\ stat_pc' = "start"
    /\ UNCHANGED <<stat_daily_records, room_charge_codes, parsed_records, stat_groups,
                   stat_group_index, stat_reservations, stat_failed_count, step_context,
                   pipeline_vars, batch_vars, status_vars, invoice_vars, orch_vars,
                   padrao_vars>>

StepStatNext ==
    \/ CallTransformBatch
    \/ StatDailyNext

StepStatSpec == StepStatInit /\ [][StepStatNext]_vars

(***************************************************************************)
(* Properties of ProcessStatDailyStep.execute                              *)
(***************************************************************************)

\* The collection transform_batch returns for the given arguments.
TransformBatchResult(records, local_time, config) ==
    LET codes == _extract_room_charge_codes(config)
        groups == _group_stat_daily_by_reservation_day(_parse_stat_daily_records(records))
    IN  [i \in 1..Len(groups) |->
            _transform_group_to_reservation(groups[i].records, local_time, codes)]

\* C30: when the context holds a configuration, the reservations the step
\* produces are those of transform_batch called with that configuration.
C30_StepUsesContextConfiguration ==
    (stat_pc = "done" /\ step_context.config_response # <<>>)
        => stat_reservations = TransformBatchResult(stat_daily_records, stat_local_time,
                                                    step_context.config_response)

====
